---- MODULE Spec2Model ----
(***************************************************************************)
(* SparseChain of bdk_core (src/bdk_core/src/sparse_chain.rs): the         *)
(* checkpoint ledger, the confirmed-txid index, the mempool and the        *)
(* checkpoint limit, with the operations apply_update, apply_block_txs,    *)
(* disconnect_block, clear_mempool and set_checkpoint_limit; and the       *)
(* KeychainChangeSet of bdk_chain (src/bdk_chain/src/keychain.rs) with its *)
(* append.                                                                 *)
(*                                                                         *)
(* Heights are u32.  The width is scaled down: the largest u32 is U32_MAX  *)
(* and u32 addition wraps modulo U32_MAX + 1 in a release build and        *)
(* panics in a debug build.                                                *)
(***************************************************************************)
EXTENDS Integers, FiniteSets, Sequences, TLC

\* u32::MAX, scaled (sparse_chain.rs:187).
U32_MAX == 2
\* Txid::all_zeros(), the least txid (sparse_chain.rs:292).
ALL_ZEROS == 0

\* Bound of the model: the largest checkpoint_limit the caller sets.
MaxLimit == 1

Heights == 0..U32_MAX
\* the txids and the block hashes that occur
Txids == {1, 2}
Hashes == {1, 2}

\* Option<T>
None == [tag |-> "None"]
Some(v) == [tag |-> "Some", val |-> v]
IsSome(o) == o.tag = "Some"

\* BlockId { height, hash }
BlockId(height, hash) == [height |-> height, hash |-> hash]
BlockIds == {BlockId(h, x) : h \in Heights, x \in Hashes}
OptBlockIds == {None} \cup {Some(b) : b \in BlockIds}

\* enum TxHeight { Confirmed(u32), Unconfirmed }
Confirmed(h) == [tag |-> "Confirmed", h |-> h]
Unconfirmed == [tag |-> "Unconfirmed"]
TxHeights == {Confirmed(h) : h \in Heights} \cup {Unconfirmed}

\* usize values of checkpoint_limit
Limits == {None} \cup {Some(n) : n \in 0..MaxLimit}

Max(S) == CHOOSE x \in S : \A y \in S : y <= x

\* every ordering of the elements of S: the orders in which a HashMap with
\* key set S can be iterated
Orders(S) == {o \in [1..Cardinality(S) -> S] : \A i, j \in 1..Cardinality(S) : o[i] = o[j] => i = j}

\* struct Update { txids, last_valid, invalidate, new_tip }
Update(txids, last_valid, invalidate, new_tip) ==
    [txids |-> txids, last_valid |-> last_valid, invalidate |-> invalidate, new_tip |-> new_tip]
TxidMaps == UNION {[S -> TxHeights] : S \in SUBSET Txids}
\* the updates without txids
HeaderUpdates == {Update(<<>>, lv, inv, tip) : lv \in OptBlockIds, inv \in OptBlockIds, tip \in BlockIds}

\* Update::new(last_valid, new_tip)
UpdateNew(last_valid, new_tip) == Update(<<>>, last_valid, None, new_tip)

\* enum UpdateFailure / BogusReason
Stale(got, expected) == [kind |-> "Stale", got_last_valid |-> got, expected_last_valid |-> expected]
LastValidConflictsNewTip(new_tip, last_valid) ==
    [kind |-> "LastValidConflictsNewTip", new_tip |-> new_tip, last_valid |-> last_valid]
TxHeightGreaterThanTip(new_tip, txid, tx_height) ==
    [kind |-> "TxHeightGreaterThanTip", new_tip |-> new_tip, tx |-> <<txid, tx_height>>]
Inconsistent(txid, original_height, update_height) ==
    [kind |-> "Inconsistent", inconsistent_txid |-> txid,
     original_height |-> original_height, update_height |-> update_height]

\* Result<(), UpdateFailure>, and the panic of a debug build
Ok == [tag |-> "Ok"]
Err(e) == [tag |-> "Err", err |-> e]
Panic == [tag |-> "Panic"]
IsErr(r) == r.tag = "Err"

VARIABLES
    checkpoints,       \* BTreeMap<u32, BlockHash>
    txid_by_height,    \* BTreeSet<(u32, Txid)>
    txid_to_index,     \* HashMap<Txid, u32>
    mempool,           \* HashSet<Txid>
    checkpoint_limit,  \* Option<usize>
    op,                \* the last operation called, with its arguments
    result,            \* what it returned
    pre,               \* the chain (the changeset, for append) before it
    keychain_changeset, \* a KeychainChangeSet<K, P>, the `self` of append
    tracker,           \* a KeychainTracker<K, P>
    db,                \* a KeychainStore<K, P>, what the file holds
    stdout             \* the lines a command has printed with println!

vars == <<checkpoints, txid_by_height, txid_to_index, mempool, checkpoint_limit, op, result, pre,
          keychain_changeset, tracker, db, stdout>>

\* struct SparseChain
SparseChain(cps, tbh, tti, mp, lim) ==
    [checkpoints |-> cps, txid_by_height |-> tbh, txid_to_index |-> tti,
     mempool |-> mp, checkpoint_limit |-> lim]

\* SparseChain::default()
Default == SparseChain(<<>>, {}, <<>>, {}, None)

Self == SparseChain(checkpoints, txid_by_height, txid_to_index, mempool, checkpoint_limit)

\* a map without the keys of K / with key k bound to v
MapRemove(m, K) == [k \in DOMAIN m \ K |-> m[k]]
MapInsert(m, k, v) == [x \in DOMAIN m \cup {k} |-> IF x = k THEN v ELSE m[x]]

\* the order of (u32, Txid) tuples in the BTreeSet
TupleGeq(a, b) == a[1] > b[1] \/ (a[1] = b[1] /\ a[2] >= b[2])

\* SparseChain::latest_checkpoint
LatestCheckpoint(c) ==
    IF DOMAIN c.checkpoints = {} THEN None
    ELSE LET height == Max(DOMAIN c.checkpoints)
         IN Some(BlockId(height, c.checkpoints[height]))

\* SparseChain::checkpoint_at
CheckpointAt(c, height) ==
    IF height \in DOMAIN c.checkpoints THEN Some(BlockId(height, c.checkpoints[height])) ELSE None

\* SparseChain::transaction_height
TransactionHeight(c, txid) ==
    IF txid \in c.mempool THEN Some(Unconfirmed)
    ELSE IF txid \in DOMAIN c.txid_to_index THEN Some(Confirmed(c.txid_to_index[txid]))
    ELSE None

\* ExpectedLastValid with the inclusive range ..=upper_bound
ExpectedLastValidInclusive(c, update) ==
    LET upper_bound == IF IsSome(update.invalidate) THEN update.invalidate.val.height ELSE U32_MAX
        below == {h \in DOMAIN c.checkpoints : h <= upper_bound}
    IN IF below = {} THEN None
       ELSE Some(BlockId(Max(below), c.checkpoints[Max(below)]))

\* apply_update, lines 186-192: checkpoints.range(..upper_bound).last()
ExpectedLastValid(c, update) ==
    LET upper_bound == IF IsSome(update.invalidate) THEN update.invalidate.val.height ELSE U32_MAX
        below == {h \in DOMAIN c.checkpoints : h < upper_bound}
    IN IF below = {} THEN None
       ELSE Some(BlockId(Max(below), c.checkpoints[Max(below)]))

\* TipConflict without the comparison of the hashes
TipConflictHeightOnly(update, expected_last_valid) ==
    /\ IsSome(expected_last_valid)
    /\ update.new_tip.height < expected_last_valid.val.height

\* apply_update, lines 200-214
TipConflict(update, expected_last_valid) ==
    /\ IsSome(expected_last_valid)
    /\ \/ update.new_tip.height < expected_last_valid.val.height
       \/ /\ update.new_tip.height = expected_last_valid.val.height
          /\ update.new_tip.hash # expected_last_valid.val.hash

\* apply_update, line 218
TxAboveTip(update, txid) ==
    /\ update.txids[txid].tag = "Confirmed"
    /\ update.txids[txid].h > update.new_tip.height

\* TxInconsistent with `>` for `>=` in the test of line 229
TxInconsistentStrict(c, update, txid) ==
    /\ txid \in DOMAIN c.txid_to_index
    /\ ~ \/ IsSome(update.invalidate) /\ c.txid_to_index[txid] > update.invalidate.val.height
         \/ update.txids[txid].tag = "Confirmed" /\ update.txids[txid].h = c.txid_to_index[txid]

\* apply_update, lines 227-242: the tx is confirmed in the chain and neither
\* invalidated nor at the same height in the update
TxInconsistent(c, update, txid) ==
    /\ txid \in DOMAIN c.txid_to_index
    /\ ~ \/ IsSome(update.invalidate) /\ c.txid_to_index[txid] >= update.invalidate.val.height
         \/ update.txids[txid].tag = "Confirmed" /\ update.txids[txid].h = c.txid_to_index[txid]

\* apply_update, lines 216-243: the body of the loop for one entry
CheckTx(c, update, txid) ==
    IF TxAboveTip(update, txid)
    THEN Some(TxHeightGreaterThanTip(update.new_tip, txid, update.txids[txid]))
    ELSE IF TxInconsistent(c, update, txid)
    THEN Some(Inconsistent(txid, Confirmed(c.txid_to_index[txid]), update.txids[txid]))
    ELSE None

\* apply_update, lines 216-243: the loop, in the iteration order `order`
RECURSIVE CheckTxids(_, _, _)
CheckTxids(c, update, order) ==
    IF order = <<>> THEN None
    ELSE LET e == CheckTx(c, update, Head(order))
         IN IF IsSome(e) THEN e ELSE CheckTxids(c, update, Tail(order))

\* apply_update, lines 186-243: the failure, if any
Validate(c, update, order) ==
    LET expected_last_valid == ExpectedLastValid(c, update)
    IN IF update.last_valid # expected_last_valid
       THEN Some(Stale(update.last_valid, expected_last_valid))
       ELSE IF TipConflict(update, expected_last_valid)
       THEN Some(LastValidConflictsNewTip(update.new_tip, expected_last_valid.val))
       ELSE CheckTxids(c, update, order)

\* invalidate_checkpoints: the debug assertion of line 296
InvalidateAssertion(c, height) ==
    \A p \in c.txid_by_height : TupleGeq(p, <<height, ALL_ZEROS>>) =>
        p[2] \in DOMAIN c.txid_to_index /\ c.txid_to_index[p[2]] = p[1]

\* invalidate_checkpoints without the removal from txid_to_index
InvalidateCheckpointsKeepIndex(c, height) ==
    LET removed_txids == {p \in c.txid_by_height : TupleGeq(p, <<height, ALL_ZEROS>>)}
    IN SparseChain(
        MapRemove(c.checkpoints, {h \in DOMAIN c.checkpoints : h >= height}),
        c.txid_by_height \ removed_txids,
        c.txid_to_index,
        IF removed_txids # {} THEN {} ELSE c.mempool,
        c.checkpoint_limit)

\* an invalidation that leaves the mempool alone
InvalidateCheckpointsKeepingMempool(c, height) ==
    LET removed_txids == {p \in c.txid_by_height : TupleGeq(p, <<height, ALL_ZEROS>>)}
    IN SparseChain(
        MapRemove(c.checkpoints, {h \in DOMAIN c.checkpoints : h >= height}),
        c.txid_by_height \ removed_txids,
        MapRemove(c.txid_to_index, {p[2] : p \in removed_txids}),
        c.mempool,
        c.checkpoint_limit)

\* SparseChain::invalidate_checkpoints
InvalidateCheckpoints(c, height) ==
    LET removed_txids == {p \in c.txid_by_height : TupleGeq(p, <<height, ALL_ZEROS>>)}
    IN SparseChain(
        MapRemove(c.checkpoints, {h \in DOMAIN c.checkpoints : h >= height}),
        c.txid_by_height \ removed_txids,
        MapRemove(c.txid_to_index, {p[2] : p \in removed_txids}),
        IF removed_txids # {} THEN {} ELSE c.mempool,
        c.checkpoint_limit)

\* InsertTx without mempool.remove
InsertTxKeepMempool(c, txid, conf) ==
    IF conf.tag = "Confirmed"
    THEN IF <<conf.h, txid>> \notin c.txid_by_height
         THEN [c EXCEPT !.txid_by_height = @ \cup {<<conf.h, txid>>},
                        !.txid_to_index = MapInsert(@, txid, conf.h)]
         ELSE c
    ELSE [c EXCEPT !.mempool = @ \cup {txid}]

\* InsertTx without txid_to_index.insert
InsertTxSkipIndex(c, txid, conf) ==
    IF conf.tag = "Confirmed"
    THEN IF <<conf.h, txid>> \notin c.txid_by_height
         THEN [c EXCEPT !.txid_by_height = @ \cup {<<conf.h, txid>>},
                        !.mempool = @ \ {txid}]
         ELSE c
    ELSE [c EXCEPT !.mempool = @ \cup {txid}]

\* apply_update, lines 254-266: the body of the loop for one entry
InsertTx(c, txid, conf) ==
    IF conf.tag = "Confirmed"
    THEN IF <<conf.h, txid>> \notin c.txid_by_height
         THEN [c EXCEPT !.txid_by_height = @ \cup {<<conf.h, txid>>},
                        !.txid_to_index = MapInsert(@, txid, conf.h),
                        !.mempool = @ \ {txid}]
         ELSE c
    ELSE [c EXCEPT !.mempool = @ \cup {txid}]

\* apply_update, lines 254-266: the loop, in the iteration order `order`
RECURSIVE InsertTxids(_, _, _)
InsertTxids(c, txids, order) ==
    IF order = <<>> THEN c
    ELSE InsertTxids(InsertTx(c, Head(order), txids[Head(order)]), txids, Tail(order))

\* prune_checkpoints, line 357: checkpoints.keys().rev().nth(limit)
NthHighest(cps, n) ==
    LET keys == DOMAIN cps
    IN IF n >= Cardinality(keys) THEN None
       ELSE Some(CHOOSE h \in keys : Cardinality({k \in keys : k > h}) = n)

\* prune_checkpoints, line 359: last_height + 1 overflows
PruneOverflows(c) ==
    /\ IsSome(c.checkpoint_limit)
    /\ NthHighest(c.checkpoints, c.checkpoint_limit.val) = Some(U32_MAX)

\* SparseChain::prune_checkpoints (the wrapping sum of a release build)
PruneCheckpoints(c) ==
    IF ~IsSome(c.checkpoint_limit) THEN c
    ELSE LET last == NthHighest(c.checkpoints, c.checkpoint_limit.val)
         IN IF ~IsSome(last) THEN c
            ELSE LET keep_height == (last.val + 1) % (U32_MAX + 1)
                 IN [c EXCEPT !.checkpoints =
                        MapRemove(@, {h \in DOMAIN @ : h < keep_height})]

\* apply_update, lines 245-266: the mutations before pruning
ApplyValid(c, update, order) ==
    LET c1 == IF IsSome(update.invalidate)
              THEN InvalidateCheckpoints(c, update.invalidate.val.height)
              ELSE c
        c2 == IF update.new_tip.height \in DOMAIN c1.checkpoints THEN c1
              ELSE [c1 EXCEPT !.checkpoints =
                        MapInsert(@, update.new_tip.height, update.new_tip.hash)]
    IN InsertTxids(c2, update.txids, order)

\* apply_update recording new_tip before it validates
ApplyUpdateEager(c, update, order, debug) ==
    LET failure == Validate(c, update, order)
        c0 == IF update.new_tip.height \in DOMAIN c.checkpoints THEN c
              ELSE [c EXCEPT !.checkpoints =
                        MapInsert(@, update.new_tip.height, update.new_tip.hash)]
    IN IF IsSome(failure) THEN [chain |-> c0, result |-> Err(failure.val)]
       ELSE LET c3 == ApplyValid(c, update, order)
            IN IF debug /\ PruneOverflows(c3)
               THEN [chain |-> c3, result |-> Panic]
               ELSE [chain |-> PruneCheckpoints(c3), result |-> Ok]

\* SparseChain::apply_update: the chain and the result it leaves; `order` is
\* the iteration order of update.txids and `debug` tells a debug build (whose
\* assertions and overflow checks panic) from a release build
ApplyUpdate(c, update, order, debug) ==
    LET failure == Validate(c, update, order)
    IN IF IsSome(failure) THEN [chain |-> c, result |-> Err(failure.val)]
       ELSE IF /\ debug
               /\ IsSome(update.invalidate)
               /\ ~InvalidateAssertion(c, update.invalidate.val.height)
       THEN [chain |-> c, result |-> Panic]
       ELSE LET c3 == ApplyValid(c, update, order)
            IN IF debug /\ PruneOverflows(c3)
               THEN [chain |-> c3, result |-> Panic]
               ELSE [chain |-> PruneCheckpoints(c3), result |-> Ok]

\* the update of apply_block_txs with last_valid = None
BlockTxsUpdateNoLastValid(c, block_id, transactions) ==
    LET matching_checkpoint == CheckpointAt(c, block_id.height)
    IN Update([t \in transactions |-> Confirmed(block_id.height)],
              None,
              IF IsSome(matching_checkpoint) /\ matching_checkpoint.val # block_id
              THEN matching_checkpoint ELSE None,
              block_id)

\* SparseChain::apply_block_txs: the update it builds
BlockTxsUpdate(c, block_id, transactions) ==
    LET matching_checkpoint == CheckpointAt(c, block_id.height)
    IN Update([t \in transactions |-> Confirmed(block_id.height)],
              LatestCheckpoint(c),
              IF IsSome(matching_checkpoint) /\ matching_checkpoint.val # block_id
              THEN matching_checkpoint ELSE None,
              block_id)

\* SparseChain::clear_mempool
ClearMempool(c) == [c EXCEPT !.mempool = {}]

\* disconnect_block without the comparison of the hashes
DisconnectBlockAnyHash(c, block_id, debug) ==
    IF block_id.height \in DOMAIN c.checkpoints
    THEN IF debug /\ ~InvalidateAssertion(c, block_id.height)
         THEN [chain |-> c, result |-> Panic]
         ELSE [chain |-> ClearMempool(InvalidateCheckpoints(c, block_id.height)), result |-> Ok]
    ELSE [chain |-> c, result |-> Ok]

\* SparseChain::disconnect_block: the chain and the result it leaves
DisconnectBlock(c, block_id, debug) ==
    IF block_id.height \in DOMAIN c.checkpoints /\ c.checkpoints[block_id.height] = block_id.hash
    THEN IF debug /\ ~InvalidateAssertion(c, block_id.height)
         THEN [chain |-> c, result |-> Panic]
         ELSE [chain |-> ClearMempool(InvalidateCheckpoints(c, block_id.height)), result |-> Ok]
    ELSE [chain |-> c, result |-> Ok]

\* SparseChain::set_checkpoint_limit
SetCheckpointLimit(c, limit) == [c EXCEPT !.checkpoint_limit = limit]

----
\* KeychainChangeSet (src/bdk_chain/src/keychain.rs).

\* the keychains K of the test (keychain.rs:181-187)
Keychains == {"One", "Two", "Three", "Four"}

\* Bound of the model: the largest derivation index.
MaxIndex == 2

\* BTreeMap<K, u32>
IndexMaps == UNION {[S -> 0..MaxIndex] : S \in SUBSET Keychains}

\* chain_graph::ChangeSet<P> { chain: sparse_chain::ChangeSet { checkpoints,
\* txids }, graph: Additions { tx, txout } }
ChainGraphChangeSet(checkpoints_, txids_, tx_, txout_) ==
    [chain |-> [checkpoints |-> checkpoints_, txids |-> txids_],
     graph |-> [tx |-> tx_, txout |-> txout_]]
ChainGraphChangeSetDefault == ChainGraphChangeSet(<<>>, <<>>, {}, <<>>)

\* map b laid over map a: the entries of both, those of b winning
MapOverlay(a, b) == [k \in DOMAIN a \cup DOMAIN b |-> IF k \in DOMAIN b THEN b[k] ELSE a[k]]

\* chain_graph::ChangeSet::append: the diffs overlaid, other winning on the
\* keys both hold
ChainGraphAppend(self, other) ==
    ChainGraphChangeSet(
        MapOverlay(self.chain.checkpoints, other.chain.checkpoints),
        MapOverlay(self.chain.txids, other.chain.txids),
        self.graph.tx \cup other.graph.tx,
        MapOverlay(self.graph.txout, other.graph.txout))

\* struct KeychainChangeSet { derivation_indices, chain_graph }
KeychainChangeSet(derivation_indices, chain_graph) ==
    [derivation_indices |-> derivation_indices, chain_graph |-> chain_graph]

\* KeychainChangeSet::default()
KeychainChangeSetDefault == KeychainChangeSet(<<>>, ChainGraphChangeSetDefault)

\* u32::max
MaxOf(a, b) == IF a >= b THEN a ELSE b

\* append that moves into self only the indices of other that are not 0
AppendDerivationIndicesDroppingZero(self, other) ==
    LET kept == {k \in DOMAIN other : k \in DOMAIN self \/ other[k] # 0}
    IN [k \in DOMAIN self \cup kept |->
            IF k \notin DOMAIN self THEN other[k]
            ELSE IF k \in DOMAIN other THEN MaxOf(self[k], other[k]) ELSE self[k]]

\* append with BTreeMap::append alone: the entries of other overwrite
AppendDerivationIndicesOverwrite(self, other) ==
    [k \in DOMAIN self \cup DOMAIN other |-> IF k \in DOMAIN other THEN other[k] ELSE self[k]]

\* append, lines 81-91: each index of self becomes the max of itself and the
\* index removed from other (0 if other has none); what is left of other is
\* moved into self
AppendDerivationIndices(self, other) ==
    LET maxed == [k \in DOMAIN self |->
                    MaxOf(self[k], IF k \in DOMAIN other THEN other[k] ELSE 0)]
        left == MapRemove(other, DOMAIN self)
    IN [k \in DOMAIN maxed \cup DOMAIN left |-> IF k \in DOMAIN left THEN left[k] ELSE maxed[k]]

\* KeychainChangeSet::append (Append is the operator of Sequences)
AppendChangeSet(self, other) ==
    KeychainChangeSet(
        AppendDerivationIndices(self.derivation_indices, other.derivation_indices),
        ChainGraphAppend(self.chain_graph, other.chain_graph))

----
\* KeychainTracker: the tracker a KeychainChangeSet is applied to
\* (tracker.apply_changeset, src/bdk_electrum_example/src/main.rs:186).

\* OutPoint { txid, vout }
OutPoint(txid, vout) == <<txid, vout>>

\* struct KeychainTracker: the derivation indices of its txout_index, and its
\* chain_graph: the sparse chain (checkpoints, and the position of each txid)
\* and the tx graph (full transactions, and loose txouts)
KeychainTracker(derivation_indices, checkpoints_, txids_, txs_, txouts_) ==
    [txout_index |-> [derivation_indices |-> derivation_indices],
     chain_graph |-> [chain |-> [checkpoints |-> checkpoints_, txids |-> txids_],
                      graph |-> [txs |-> txs_, txouts |-> txouts_]]]

\* KeychainTracker::default()
KeychainTrackerDefault == KeychainTracker(<<>>, <<>>, <<>>, {}, <<>>)

\* struct KeychainStore: the changesets appended to the file, in order, and
\* the derivation indices last written to it
KeychainStore(changesets, derivation_indices) ==
    [changesets |-> changesets, derivation_indices |-> derivation_indices]

KeychainStoreDefault == KeychainStore(<<>>, <<>>)

\* a diff of Option values applied to a map: Some(v) inserts or updates, None
\* deletes
ApplyDiff(m, diff) ==
    LET deleted == {k \in DOMAIN diff : ~IsSome(diff[k])}
    IN [k \in (DOMAIN m \cup DOMAIN diff) \ deleted |->
            IF k \in DOMAIN diff THEN diff[k].val ELSE m[k]]

\* SparseChain::apply_changeset
SparseChainApplyChangeset(chain, changeset) ==
    [checkpoints |-> ApplyDiff(chain.checkpoints, changeset.checkpoints),
     txids |-> ApplyDiff(chain.txids, changeset.txids)]

\* TxGraph::apply_additions: the graph only grows, and holds no loose txout of
\* a transaction it holds in full
TxGraphApplyAdditions(graph, additions) ==
    LET txs_ == graph.txs \cup additions.tx
        txouts_ == MapOverlay(graph.txouts, additions.txout)
    IN [txs |-> txs_, txouts |-> MapRemove(txouts_, {o \in DOMAIN txouts_ : o[1] \in txs_})]

\* apply_changeset with a graph that forgets the transactions the changeset
\* removes from the chain
ChainGraphApplyChangesetForgetting(chain_graph, changeset) ==
    LET removed == {t \in DOMAIN changeset.chain.txids : ~IsSome(changeset.chain.txids[t])}
        graph == TxGraphApplyAdditions(chain_graph.graph, changeset.graph)
    IN [chain |-> SparseChainApplyChangeset(chain_graph.chain, changeset.chain),
        graph |-> [graph EXCEPT !.txs = @ \ removed]]

\* ChainGraph::apply_changeset
ChainGraphApplyChangeset(chain_graph, changeset) ==
    [chain |-> SparseChainApplyChangeset(chain_graph.chain, changeset.chain),
     graph |-> TxGraphApplyAdditions(chain_graph.graph, changeset.graph)]

\* KeychainTxOutIndex: the derivation indices advanced to those of a
\* changeset, never lowered
StoreAllUpTo(derivation_indices, indices) ==
    [k \in DOMAIN derivation_indices \cup DOMAIN indices |->
        IF k \notin DOMAIN indices THEN derivation_indices[k]
        ELSE IF k \notin DOMAIN derivation_indices THEN indices[k]
        ELSE MaxOf(derivation_indices[k], indices[k])]

\* KeychainTracker::apply_changeset
ApplyChangeset(t, changeset) ==
    [txout_index |-> [derivation_indices |->
        StoreAllUpTo(t.txout_index.derivation_indices, changeset.derivation_indices)],
     chain_graph |-> ChainGraphApplyChangeset(t.chain_graph, changeset.chain_graph)]

----
\* The state machine: a caller that owns the chain calls one operation after
\* the other and looks at what each returned.

\* The updates the caller tries on chain c: every update without txids, and
\* every update with txids whose last_valid is the one c expects.
UpdatesFor(c) ==
    HeaderUpdates \cup
    {Update(t, ExpectedLastValid(c, Update(t, None, inv, tip)), inv, tip) :
        t \in TxidMaps, inv \in OptBlockIds, tip \in BlockIds}

Idle == [name |-> "idle"]

Becomes(c) ==
    /\ checkpoints' = c.checkpoints
    /\ txid_by_height' = c.txid_by_height
    /\ txid_to_index' = c.txid_to_index
    /\ mempool' = c.mempool
    /\ checkpoint_limit' = c.checkpoint_limit
    /\ pre' = Self
    /\ UNCHANGED <<keychain_changeset, tracker, db, stdout>>

Callable == op = Idle /\ result # Panic

Init ==
    /\ checkpoints = Default.checkpoints
    /\ txid_by_height = Default.txid_by_height
    /\ txid_to_index = Default.txid_to_index
    /\ mempool = Default.mempool
    /\ checkpoint_limit = Default.checkpoint_limit
    /\ op = Idle
    /\ result = Ok
    /\ pre = Default
    /\ keychain_changeset = KeychainChangeSetDefault
    /\ tracker = KeychainTrackerDefault
    /\ db = KeychainStoreDefault
    /\ stdout = <<>>

DoApplyUpdate ==
    /\ Callable
    /\ \E update \in UpdatesFor(Self) :
        \E r \in {ApplyUpdate(Self, update, order, debug) :
                    order \in Orders(DOMAIN update.txids), debug \in BOOLEAN} :
            /\ Becomes(r.chain)
            /\ result' = r.result
            /\ op' = [name |-> "apply_update", update |-> update]

DoApplyBlockTxs ==
    /\ Callable
    /\ \E block_id \in BlockIds : \E transactions \in SUBSET Txids :
        \E r \in {ApplyUpdate(Self, BlockTxsUpdate(Self, block_id, transactions), order, debug) :
                    order \in Orders(transactions), debug \in BOOLEAN} :
            /\ Becomes(r.chain)
            /\ result' = r.result
            /\ op' = [name |-> "apply_block_txs", block_id |-> block_id,
                      transactions |-> transactions]

DoDisconnectBlock ==
    /\ Callable
    /\ \E block_id \in BlockIds :
        \E r \in {DisconnectBlock(Self, block_id, debug) : debug \in BOOLEAN} :
            /\ Becomes(r.chain)
            /\ result' = r.result
            /\ op' = [name |-> "disconnect_block", block_id |-> block_id]

DoClearMempool ==
    /\ Callable
    /\ Becomes(ClearMempool(Self))
    /\ result' = Ok
    /\ op' = [name |-> "clear_mempool"]

DoSetCheckpointLimit ==
    /\ Callable
    /\ \E limit \in Limits :
        /\ Becomes(SetCheckpointLimit(Self, limit))
        /\ result' = Ok
        /\ op' = [name |-> "set_checkpoint_limit", limit |-> limit]

\* the caller has looked at the result and goes on
Continue ==
    /\ op # Idle
    /\ result # Panic
    /\ Becomes(Self)
    /\ result' = Ok
    /\ op' = Idle

Next ==
    \/ DoApplyUpdate
    \/ DoApplyBlockTxs
    \/ DoDisconnectBlock
    \/ DoClearMempool
    \/ DoSetCheckpointLimit
    \/ Continue

Spec == Init /\ [][Next]_vars

----
\* The append machine: any changeset takes up any other changeset.

\* the chain_graph changesets the appended changesets carry
CarriedChainGraphs ==
    {ChainGraphChangeSetDefault,
     ChainGraphChangeSet([h \in {1} |-> Some(1)], [t \in {1} |-> Some(Confirmed(1))], {1}, <<>>)}

KeychainChangeSets ==
    {KeychainChangeSet(d, g) : d \in IndexMaps, g \in CarriedChainGraphs}

InitAppend ==
    /\ checkpoints = Default.checkpoints
    /\ txid_by_height = Default.txid_by_height
    /\ txid_to_index = Default.txid_to_index
    /\ mempool = Default.mempool
    /\ checkpoint_limit = Default.checkpoint_limit
    /\ op = Idle
    /\ result = Ok
    /\ keychain_changeset \in KeychainChangeSets
    /\ pre = keychain_changeset
    /\ tracker = KeychainTrackerDefault
    /\ db = KeychainStoreDefault
    /\ stdout = <<>>

DoAppend ==
    /\ op = Idle
    /\ \E other \in KeychainChangeSets :
        /\ keychain_changeset' = AppendChangeSet(keychain_changeset, other)
        /\ op' = [name |-> "append", other |-> other]
    /\ pre' = keychain_changeset
    /\ UNCHANGED <<checkpoints, txid_by_height, txid_to_index, mempool, checkpoint_limit, result,
                   tracker, db, stdout>>

NextAppend == DoAppend

AppendSpec == InitAppend /\ [][NextAppend]_vars

----
\* The merge machine: a tracker applies a changeset and then another one,
\* while the second is appended to the first as in a store that merges what
\* it logs.

\* the derivation indices of the merged changesets
MergedKeychains == {"One", "Two"}
MergedIndexMaps == UNION {[S -> 0..MaxIndex] : S \in SUBSET MergedKeychains}

\* the chain_graph changesets of the merged changesets: no change, one change
\* of the checkpoint at height 1, of the position of txid 1, of the
\* transactions or of the txout of the outpoint 1:0, and two of several
MergedChainGraphs ==
    {ChainGraphChangeSetDefault} \cup
    {ChainGraphChangeSet([h \in {1} |-> c], <<>>, {}, <<>>) : c \in {None, Some(1), Some(2)}} \cup
    {ChainGraphChangeSet(<<>>, [t \in {1} |-> p], {}, <<>>) :
        p \in {None, Some(Unconfirmed), Some(Confirmed(1))}} \cup
    {ChainGraphChangeSet(<<>>, <<>>, {1}, <<>>)} \cup
    {ChainGraphChangeSet(<<>>, <<>>, {}, [o \in {OutPoint(1, 0)} |-> v]) : v \in {1, 2}} \cup
    {ChainGraphChangeSet([h \in {1} |-> Some(1)], [t \in {1} |-> Some(Confirmed(1))], {1}, <<>>),
     ChainGraphChangeSet([h \in {1, 2} |-> IF h = 1 THEN None ELSE Some(2)],
                         [t \in {1, 2} |-> IF t = 1 THEN None ELSE Some(Confirmed(2))],
                         {2}, [o \in {OutPoint(1, 0)} |-> 2])}

MergedChangeSets ==
    {KeychainChangeSet(d, g) : d \in MergedIndexMaps, g \in MergedChainGraphs}

\* the changesets that made the tracker what it is at the start
StartChangeSets ==
    {KeychainChangeSetDefault,
     KeychainChangeSet([k \in {"One"} |-> 1],
        ChainGraphChangeSet([h \in {1} |-> Some(1)], [t \in {1} |-> Some(Confirmed(1))], {1}, <<>>)),
     KeychainChangeSet([k \in {"One", "Two"} |-> IF k = "One" THEN 0 ELSE MaxIndex],
        ChainGraphChangeSet([h \in {0, 1} |-> Some(2)], [t \in {1, 2} |-> Some(Unconfirmed)],
                            {2}, [o \in {OutPoint(1, 0)} |-> 1]))}

InitMerge ==
    /\ checkpoints = Default.checkpoints
    /\ txid_by_height = Default.txid_by_height
    /\ txid_to_index = Default.txid_to_index
    /\ mempool = Default.mempool
    /\ checkpoint_limit = Default.checkpoint_limit
    /\ op = Idle
    /\ result = Ok
    /\ tracker \in {ApplyChangeset(KeychainTrackerDefault, c) : c \in StartChangeSets}
    /\ db = KeychainStoreDefault
    /\ stdout = <<>>
    /\ keychain_changeset \in MergedChangeSets
    /\ pre = [tracker |-> tracker, changeset |-> keychain_changeset]

\* the tracker applies keychain_changeset and then other; other is appended
\* to keychain_changeset
DoApplyBoth ==
    /\ op = Idle
    /\ \E other \in MergedChangeSets :
        /\ tracker' = ApplyChangeset(ApplyChangeset(tracker, keychain_changeset), other)
        /\ keychain_changeset' = AppendChangeSet(keychain_changeset, other)
        /\ op' = [name |-> "apply_both", other |-> other]
    /\ pre' = [tracker |-> tracker, changeset |-> keychain_changeset]
    /\ UNCHANGED <<checkpoints, txid_by_height, txid_to_index, mempool, checkpoint_limit, result,
                   db, stdout>>

NextMerge == DoApplyBoth

MergeSpec == InitMerge /\ [][NextMerge]_vars

----
\* Properties of the sparse chain.

IsApplyUpdate == op.name = "apply_update"

\* the kind of failure of the last call, "" when it did not fail
FailureKind == IF IsErr(result) THEN result.err.kind ELSE ""

\* the last call was an apply_update that passed the staleness check and the
\* tip-coherence check
PassedTipChecks == IsApplyUpdate /\ FailureKind \notin {"Stale", "LastValidConflictsNewTip"}

\* C1: an apply_update (also the one apply_block_txs makes) that returns an
\* UpdateFailure leaves checkpoints, txid_by_height, txid_to_index, mempool and
\* checkpoint_limit exactly as they were before the call.
C1_FailureLeavesChain ==
    (op.name \in {"apply_update", "apply_block_txs"} /\ IsErr(result)) => Self = pre

\* an update with txids and an invalidation fails on a chain that holds
\* checkpoints, confirmed txids and mempool txids
C1_Witness ==
    /\ IsApplyUpdate
    /\ FailureKind = "Inconsistent"
    /\ IsSome(op.update.invalidate)
    /\ pre.mempool # {}
    /\ Cardinality(DOMAIN pre.checkpoints) >= 2

\* the last_valid the staleness rule of the claims expects: the highest
\* checkpoint strictly below invalidate.height, the latest checkpoint when
\* invalidate is None
StatedLastValid(c, update) ==
    IF IsSome(update.invalidate)
    THEN LET below == {h \in DOMAIN c.checkpoints : h < update.invalidate.val.height}
         IN IF below = {} THEN None ELSE Some(BlockId(Max(below), c.checkpoints[Max(below)]))
    ELSE LatestCheckpoint(c)

\* C2: apply_update fails with Stale{got_last_valid, expected_last_valid} if
\* and only if update.last_valid differs from the expected last_valid (the
\* highest checkpoint strictly below invalidate.height, the latest checkpoint
\* when invalidate is None), and the error carries both values.
C2_StaleRule ==
    IsApplyUpdate =>
        LET expected == StatedLastValid(pre, op.update)
        IN /\ (op.update.last_valid # expected) <=> (FailureKind = "Stale")
           /\ FailureKind = "Stale" => result.err = Stale(op.update.last_valid, expected)

\* C3: a non-stale update fails with LastValidConflictsNewTip{new_tip,
\* last_valid} exactly when last_valid is Some(lv) and new_tip is below lv or
\* at lv's height with another hash; with last_valid None it never does.
C3_TipCoherence ==
    (IsApplyUpdate /\ FailureKind # "Stale") =>
        LET u == op.update
            conflict == /\ IsSome(u.last_valid)
                        /\ \/ u.new_tip.height < u.last_valid.val.height
                           \/ /\ u.new_tip.height = u.last_valid.val.height
                              /\ u.new_tip.hash # u.last_valid.val.hash
        IN /\ conflict <=> (FailureKind = "LastValidConflictsNewTip")
           /\ conflict => result.err = LastValidConflictsNewTip(u.new_tip, u.last_valid.val)

\* a new_tip at the height of last_valid with another hash is rejected
C3_Witness ==
    /\ IsApplyUpdate
    /\ FailureKind = "LastValidConflictsNewTip"
    /\ op.update.new_tip.height = op.update.last_valid.val.height

\* the txids of the update confirmed above new_tip
AboveTip(u) ==
    {t \in DOMAIN u.txids : u.txids[t].tag = "Confirmed" /\ u.txids[t].h > u.new_tip.height}

\* C4: an update that passes the staleness and tip-coherence checks and holds
\* a txid Confirmed(h) with h > new_tip.height is rejected with
\* TxHeightGreaterThanTip{new_tip, tx}; no other tx triggers this error.
C4_TxAboveTipRejected ==
    PassedTipChecks =>
        LET u == op.update
        IN /\ AboveTip(u) # {} => FailureKind = "TxHeightGreaterThanTip"
           /\ FailureKind = "TxHeightGreaterThanTip" =>
                \E t \in AboveTip(u) : result.err = TxHeightGreaterThanTip(u.new_tip, t, u.txids[t])

\* the txids the update moves without a covering invalidation: confirmed in
\* chain c at h_old, listed as Unconfirmed or at another height, with
\* invalidate None or h_old < invalidate.height
Moved(c, u) ==
    {t \in DOMAIN u.txids \cap DOMAIN c.txid_to_index :
        /\ u.txids[t] # Confirmed(c.txid_to_index[t])
        /\ ~IsSome(u.invalidate) \/ c.txid_to_index[t] < u.invalidate.val.height}

\* the update fails with Inconsistent, reporting one of the txids of Moved
\* with its height in the chain and in the update
ReportsMoved(c, u) ==
    \E t \in Moved(c, u) :
        result.err = Inconsistent(t, Confirmed(c.txid_to_index[t]), u.txids[t])

\* C5 as stated: an update (past the staleness and tip-coherence checks) that
\* lists a confirmed txid as Unconfirmed or at another height, with no
\* covering invalidation, fails with Inconsistent for such a txid.
C5_MovedIsInconsistent ==
    PassedTipChecks =>
        (Moved(pre, op.update) # {} =>
            FailureKind = "Inconsistent" /\ ReportsMoved(pre, op.update))

\* C5, amended: when also no txid of the update is confirmed above
\* new_tip.height, the update fails with Inconsistent, for a moved txid, if it
\* moves a txid; and Inconsistent is only ever reported for a moved txid, never
\* for one at its old height or at or above invalidate.height.
C5_Consistency ==
    PassedTipChecks =>
        /\ (AboveTip(op.update) = {} /\ Moved(pre, op.update) # {}) =>
                FailureKind = "Inconsistent"
        /\ FailureKind = "Inconsistent" => ReportsMoved(pre, op.update)

\* an update with an invalidation fails for a txid confirmed below
\* invalidate.height, while it lists another txid confirmed at or above it
C5_Witness ==
    /\ IsApplyUpdate
    /\ FailureKind = "Inconsistent"
    /\ IsSome(op.update.invalidate)
    /\ \E t \in DOMAIN op.update.txids \cap DOMAIN pre.txid_to_index :
        pre.txid_to_index[t] >= op.update.invalidate.val.height

\* C6: (h, txid) is in txid_by_height if and only if txid_to_index[txid] = h,
\* in every reachable state; so no txid is confirmed at two heights.
C6_Mirror ==
    /\ DOMAIN txid_to_index \subseteq Txids
    /\ txid_by_height \subseteq Heights \X Txids
    /\ \A h \in Heights, t \in Txids :
        <<h, t>> \in txid_by_height <=> (t \in DOMAIN txid_to_index /\ txid_to_index[t] = h)

\* an update with an invalidation has moved a confirmed txid to another height
C6_Witness ==
    /\ IsApplyUpdate
    /\ result = Ok
    /\ \E t \in DOMAIN pre.txid_to_index \cap DOMAIN txid_to_index :
        pre.txid_to_index[t] # txid_to_index[t]

\* C7: no txid is both in the mempool and in txid_to_index; a txid an update
\* confirms is not in the mempool afterwards; and a txid that was confirmed is
\* in the mempool only after an update whose invalidation covered its height.
C7_Disjoint ==
    /\ mempool \cap DOMAIN txid_to_index = {}
    /\ (IsApplyUpdate /\ result = Ok) =>
            \A t \in DOMAIN op.update.txids : op.update.txids[t].tag = "Confirmed" =>
                t \in DOMAIN txid_to_index /\ t \notin mempool
    /\ \A t \in mempool \cap DOMAIN pre.txid_to_index :
            /\ IsApplyUpdate
            /\ IsSome(op.update.invalidate)
            /\ pre.txid_to_index[t] >= op.update.invalidate.val.height

\* an update has confirmed a txid that was in the mempool
C7_Witness ==
    /\ IsApplyUpdate
    /\ result = Ok
    /\ \E t \in pre.mempool \cap DOMAIN op.update.txids :
        t \in DOMAIN txid_to_index /\ op.update.txids[t].tag = "Confirmed"

\* C8: every height in txid_by_height is at most the height of the latest
\* checkpoint, in every reachable state (read for the chains that hold a
\* checkpoint).
C8_ConfirmedBelowTip ==
    DOMAIN checkpoints # {} =>
        \A p \in txid_by_height : p[1] <= LatestCheckpoint(Self).val.height

\* C9: with checkpoint_limit = Some(n) the chain holds at most n checkpoints
\* after every mutation, set_checkpoint_limit and disconnect_block included
\* (read for the chains without a checkpoint at u32::MAX, where pruning does
\* not overflow).
C9_LimitRespected ==
    (IsSome(checkpoint_limit) /\ op # Idle /\ U32_MAX \notin DOMAIN checkpoints) =>
        Cardinality(DOMAIN checkpoints) <= checkpoint_limit.val

\* the n highest heights of S (S itself if it has no more than n)
Highest(S, n) == {h \in S : Cardinality({k \in S : k > h}) < n}

\* the chain a valid update leaves before it prunes
Unpruned == ApplyValid(pre, op.update, CHOOSE o \in Orders(DOMAIN op.update.txids) : TRUE)

\* C10: when checkpoint_limit = Some(n), a successful apply_update keeps
\* exactly the n highest checkpoints (all of them if there are no more than
\* n), with their hashes, and pruning removes no confirmed and no mempool
\* txid.
C10_Pruning ==
    (IsApplyUpdate /\ result = Ok /\ IsSome(checkpoint_limit)) =>
        /\ DOMAIN checkpoints = Highest(DOMAIN Unpruned.checkpoints, checkpoint_limit.val)
        /\ \A h \in DOMAIN checkpoints : checkpoints[h] = Unpruned.checkpoints[h]
        /\ txid_by_height = Unpruned.txid_by_height
        /\ txid_to_index = Unpruned.txid_to_index
        /\ mempool = Unpruned.mempool

\* C11: on a chain with no checkpoints, an apply_update with last_valid = None
\* whose txids are valid (none confirmed above new_tip, none moved) succeeds if
\* and only if invalidate = None.
C11_EmptyChainBoundary ==
    (/\ IsApplyUpdate
     /\ DOMAIN pre.checkpoints = {}
     /\ op.update.last_valid = None
     /\ AboveTip(op.update) = {}
     /\ Moved(pre, op.update) = {}) =>
        (result = Ok <=> op.update.invalidate = None)

\* C11, the half that does not hold: such an update with invalidate = Some(..)
\* does not succeed
C11_InvalidateRejected ==
    (/\ IsApplyUpdate
     /\ DOMAIN pre.checkpoints = {}
     /\ op.update.last_valid = None
     /\ IsSome(op.update.invalidate)) => result # Ok

\* C11, the other half: such an update with invalidate = None succeeds or, at
\* the overflow of the pruning of a debug build, panics
C11_PlainAccepted ==
    (/\ IsApplyUpdate
     /\ DOMAIN pre.checkpoints = {}
     /\ op.update.last_valid = None
     /\ op.update.invalidate = None
     /\ AboveTip(op.update) = {}
     /\ Moved(pre, op.update) = {}) => result \in {Ok, Panic}

Min(S) == CHOOSE x \in S : \A y \in S : x <= y

\* the last call was an apply_update whose invalidate is the lowest checkpoint
\* of the chain, with its height and its hash
InvalidatesLowest ==
    /\ IsApplyUpdate
    /\ IsSome(op.update.invalidate)
    /\ DOMAIN pre.checkpoints # {}
    /\ op.update.invalidate.val.height = Min(DOMAIN pre.checkpoints)
    /\ op.update.invalidate.val.hash = pre.checkpoints[Min(DOMAIN pre.checkpoints)]

\* the txids of the update pass the checks of the loop: none is confirmed
\* above new_tip and none is moved
ValidTxids(c, u) == AboveTip(u) = {} /\ Moved(c, u) = {}

\* the checkpoints of a chain that holds new_tip alone
OnlyTip(u) == [h \in {u.new_tip.height} |-> u.new_tip.hash]

\* C12 as stated: an update whose invalidate is the chain's lowest checkpoint
\* is rejected as Stale{expected_last_valid: None} for every last_valid =
\* Some(..), and with last_valid = None it succeeds and leaves new_tip in the
\* place of that checkpoint.
C12_LowestNeedsNone ==
    InvalidatesLowest =>
        /\ IsSome(op.update.last_valid) => result = Err(Stale(op.update.last_valid, None))
        /\ op.update.last_valid = None => result = Ok /\ checkpoints = OnlyTip(op.update)

\* C12, amended: such an update is rejected as Stale{expected_last_valid: None}
\* for every last_valid = Some(..); with last_valid = None and valid txids it
\* is not rejected, and when it returns Ok the chain holds new_tip as its only
\* checkpoint, or no checkpoint when the limit is Some(0).
C12_LowestNeedsNoneValid ==
    InvalidatesLowest =>
        /\ IsSome(op.update.last_valid) => result = Err(Stale(op.update.last_valid, None))
        /\ (op.update.last_valid = None /\ ValidTxids(pre, op.update)) =>
            /\ ~IsErr(result)
            /\ result = Ok =>
                checkpoints = IF checkpoint_limit = Some(0) /\ op.update.new_tip.height # U32_MAX
                              THEN <<>> ELSE OnlyTip(op.update)
            /\ result = Panic =>
                checkpoint_limit = Some(0) /\ op.update.new_tip.height = U32_MAX

\* the lowest of two checkpoints is invalidated with last_valid = None and
\* replaced by a new tip with another hash, confirming a txid
C12_Witness ==
    /\ InvalidatesLowest
    /\ op.update.last_valid = None
    /\ result = Ok
    /\ Cardinality(DOMAIN pre.checkpoints) >= 2
    /\ op.update.new_tip.height = op.update.invalidate.val.height
    /\ op.update.new_tip.hash # op.update.invalidate.val.hash
    /\ checkpoints = OnlyTip(op.update)
    /\ DOMAIN op.update.txids # {}

\* the other half: a last_valid = Some(..) is rejected as stale
C12_WitnessStale ==
    /\ InvalidatesLowest
    /\ result = Err(Stale(op.update.last_valid, None))
    /\ op.update.last_valid = Some(op.update.invalidate.val)

\* the checkpoint of chain c that directly follows last_valid: the lowest one
\* above last_valid's height, the lowest of all when last_valid is None
Following(c, last_valid) ==
    LET above == {h \in DOMAIN c.checkpoints :
                    IsSome(last_valid) => h > last_valid.val.height}
    IN IF above = {} THEN None
       ELSE Some(BlockId(Min(above), c.checkpoints[Min(above)]))

\* C13: an apply_update with invalidate = Some(inv) is accepted only when inv
\* is the checkpoint of the chain (same height, same hash) that directly
\* follows last_valid; it fails whenever that checkpoint is not inv itself.
C13_InvalidateFollowsLastValid ==
    (IsApplyUpdate /\ IsSome(op.update.invalidate) /\ result = Ok) =>
        Following(pre, op.update.last_valid) = op.update.invalidate

\* C13 for the updates whose invalidate is a checkpoint of the chain, height
\* and hash: those are accepted only when it directly follows last_valid
C13_FollowsWhenCheckpoint ==
    (/\ IsApplyUpdate
     /\ IsSome(op.update.invalidate)
     /\ CheckpointAt(pre, op.update.invalidate.val.height) = op.update.invalidate
     /\ result = Ok) =>
        Following(pre, op.update.last_valid) = op.update.invalidate

\* C14: after a successful apply_update every (txid, Confirmed(h)) of the
\* update has transaction_height(txid) = Confirmed(h) and is not in the
\* mempool, and every (txid, Unconfirmed) of it has transaction_height(txid) =
\* Unconfirmed.
C14_TxidsTakeUpdateHeight ==
    (IsApplyUpdate /\ result = Ok) =>
        \A t \in DOMAIN op.update.txids :
            /\ TransactionHeight(Self, t) = Some(op.update.txids[t])
            /\ op.update.txids[t].tag = "Confirmed" => t \notin mempool

\* one update has confirmed a txid at the height of the tip it introduces and
\* another txid below last_valid, at a height without a checkpoint
C14_Witness ==
    /\ IsApplyUpdate
    /\ result = Ok
    /\ IsSome(op.update.last_valid)
    /\ op.update.new_tip.height \notin DOMAIN pre.checkpoints
    /\ \E t1, t2 \in DOMAIN op.update.txids :
        /\ op.update.txids[t1] = Confirmed(op.update.new_tip.height)
        /\ TransactionHeight(Self, t1) = Some(Confirmed(op.update.new_tip.height))
        /\ op.update.txids[t2].tag = "Confirmed"
        /\ op.update.txids[t2].h < op.update.last_valid.val.height
        /\ op.update.txids[t2].h \notin DOMAIN pre.checkpoints
        /\ TransactionHeight(Self, t2) = Some(op.update.txids[t2])
        /\ t2 \in pre.mempool

\* an update puts into the mempool a txid that was confirmed at or above the
\* height it invalidates
C14_WitnessUnconfirmed ==
    /\ IsApplyUpdate
    /\ result = Ok
    /\ \E t \in DOMAIN op.update.txids \cap DOMAIN pre.txid_to_index :
        /\ op.update.txids[t] = Unconfirmed
        /\ TransactionHeight(Self, t) = Some(Unconfirmed)

\* the txids of update u that chain c does not hold, confirmed or in the mempool
NewTxids(c, u) == {t \in DOMAIN u.txids : t \notin DOMAIN c.txid_to_index /\ t \notin c.mempool}

\* the last call was an apply_update that re-states the tip: invalidate = None,
\* last_valid = new_tip = the latest checkpoint, and every txid is new or
\* already confirmed at the height the update lists
RestatesTip ==
    /\ IsApplyUpdate
    /\ op.update.invalidate = None
    /\ IsSome(LatestCheckpoint(pre))
    /\ op.update.last_valid = LatestCheckpoint(pre)
    /\ op.update.new_tip = op.update.last_valid.val
    /\ \A t \in DOMAIN op.update.txids \ NewTxids(pre, op.update) :
        /\ t \in DOMAIN pre.txid_to_index
        /\ op.update.txids[t] = Confirmed(pre.txid_to_index[t])

\* chain c with the new txids of update u added, and nothing else changed
WithNewTxids(c, u) ==
    LET conf == {t \in NewTxids(c, u) : u.txids[t].tag = "Confirmed"}
    IN [c EXCEPT !.txid_by_height = @ \cup {<<u.txids[t].h, t>> : t \in conf},
                 !.txid_to_index = [t \in DOMAIN @ \cup conf |->
                                        IF t \in conf THEN u.txids[t].h ELSE @[t]],
                 !.mempool = @ \cup (NewTxids(c, u) \ conf)]

\* C15: an update that re-states the tip always succeeds, leaves the
\* checkpoints unchanged and changes the tx sets only by adding its new txids;
\* with no new txids it changes nothing.
C15_RestatingTip ==
    RestatesTip => result = Ok /\ Self = WithNewTxids(pre, op.update)

\* C15 where neither the exclusive range of the staleness check nor a pruning
\* left undone by set_checkpoint_limit comes in: the tip is below u32::MAX,
\* the chain holds no more checkpoints than its limit, and no new txid is
\* confirmed above the tip
C15_RestatingTipInRange ==
    (/\ RestatesTip
     /\ op.update.new_tip.height # U32_MAX
     /\ IsSome(pre.checkpoint_limit) =>
            Cardinality(DOMAIN pre.checkpoints) <= pre.checkpoint_limit.val
     /\ AboveTip(op.update) = {}) =>
        result = Ok /\ Self = WithNewTxids(pre, op.update)

\* C15 for the chains over their limit: the update succeeds and adds its new
\* txids, and the checkpoints are pruned to the limit
C15_RestatingTipPrunes ==
    (/\ RestatesTip
     /\ op.update.new_tip.height # U32_MAX
     /\ AboveTip(op.update) = {}) =>
        /\ result = Ok
        /\ Self = PruneCheckpoints(WithNewTxids(pre, op.update))

\* chain c without the checkpoints and the confirmed txids at or above
\* height, and with an empty mempool
CutBelow(c, height) ==
    [c EXCEPT !.checkpoints = MapRemove(@, {h \in DOMAIN @ : h >= height}),
              !.txid_by_height = {p \in @ : p[1] < height},
              !.txid_to_index = MapRemove(@, {t \in DOMAIN @ : @[t] >= height}),
              !.mempool = {}]

\* C16: disconnect_block(block_id) changes the chain if and only if the chain
\* holds a checkpoint with block_id's height and hash; then it removes every
\* checkpoint and every confirmed txid at or above block_id.height, empties
\* the mempool and leaves the checkpoints and confirmed txids below unchanged;
\* otherwise the whole state, mempool included, is unchanged.
C16_DisconnectBlock ==
    op.name = "disconnect_block" =>
        LET holds == CheckpointAt(pre, op.block_id.height) = Some(op.block_id)
        IN /\ result = Ok
           /\ Self # pre <=> holds
           /\ holds => Self = CutBelow(pre, op.block_id.height)

\* a block between two others is disconnected: the checkpoint above goes with
\* it, the confirmed txid below stays, and the mempool is emptied although no
\* confirmed txid was removed
C16_Witness ==
    /\ op.name = "disconnect_block"
    /\ CheckpointAt(pre, op.block_id.height) = Some(op.block_id)
    /\ \E h \in DOMAIN pre.checkpoints : h > op.block_id.height
    /\ DOMAIN checkpoints # {}
    /\ txid_by_height # {}
    /\ txid_by_height = pre.txid_by_height
    /\ pre.mempool # {}
    /\ mempool = {}

\* a block_id with the height of a checkpoint and another hash changes nothing
C16_WitnessOtherHash ==
    /\ op.name = "disconnect_block"
    /\ op.block_id.height \in DOMAIN pre.checkpoints
    /\ pre.checkpoints[op.block_id.height] # op.block_id.hash
    /\ pre.mempool # {}
    /\ Self = pre

IsApplyBlockTxs == op.name = "apply_block_txs"

\* the update C17 describes for apply_block_txs(block_id, transactions) on
\* chain c: the txids all Confirmed(block_id.height), new_tip = block_id,
\* last_valid = the latest checkpoint of c
StatedBlockUpdate(c, block_id, transactions) ==
    Update([t \in transactions |-> Confirmed(block_id.height)], LatestCheckpoint(c), None, block_id)

\* the last apply_block_txs left the chain, and the kind of result (Ok, Err or
\* panic), that apply_update leaves for the update C17 describes
SameAsStatedUpdate ==
    \E order \in Orders(op.transactions), debug \in BOOLEAN :
        LET r == ApplyUpdate(pre, StatedBlockUpdate(pre, op.block_id, op.transactions), order, debug)
        IN r.chain = Self /\ r.result.tag = result.tag

\* C17 as stated: apply_block_txs(block_id, txids) does what apply_update does
\* for the update {txids all Confirmed(block_id.height), new_tip = block_id,
\* last_valid = the latest checkpoint}; when it returns Ok every given txid is
\* confirmed at block_id.height and checkpoint_at(block_id.height) = block_id;
\* when it returns Err the chain is unchanged.
C17_BlockTxsAsUpdate ==
    IsApplyBlockTxs =>
        /\ SameAsStatedUpdate
        /\ result = Ok =>
            /\ \A t \in op.transactions :
                TransactionHeight(Self, t) = Some(Confirmed(op.block_id.height))
            /\ CheckpointAt(Self, op.block_id.height) = Some(op.block_id)
        /\ IsErr(result) => Self = pre

\* C17, amended: the same, with checkpoint_at(block_id.height) = block_id after
\* an Ok when the checkpoint limit is not Some(0); under that limit the
\* checkpoint at block_id.height is block_id or pruned.
C17_BlockTxsAsUpdatePruned ==
    IsApplyBlockTxs =>
        /\ SameAsStatedUpdate
        /\ result = Ok =>
            /\ \A t \in op.transactions :
                TransactionHeight(Self, t) = Some(Confirmed(op.block_id.height))
            /\ checkpoint_limit # Some(0) =>
                CheckpointAt(Self, op.block_id.height) = Some(op.block_id)
            /\ op.block_id.height \in DOMAIN checkpoints =>
                checkpoints[op.block_id.height] = op.block_id.hash
        /\ IsErr(result) => Self = pre

\* apply_block_txs has added a block above the latest checkpoint and confirmed
\* in it a txid of the mempool
C17_Witness ==
    /\ IsApplyBlockTxs
    /\ result = Ok
    /\ IsSome(LatestCheckpoint(pre))
    /\ op.block_id.height > LatestCheckpoint(pre).val.height
    /\ CheckpointAt(Self, op.block_id.height) = Some(op.block_id)
    /\ \E t \in op.transactions \cap pre.mempool :
        TransactionHeight(Self, t) = Some(Confirmed(op.block_id.height))

\* apply_block_txs has failed for a block at the height of a checkpoint with
\* another hash
C17_WitnessErr ==
    /\ IsApplyBlockTxs
    /\ IsErr(result)
    /\ op.block_id.height \in DOMAIN pre.checkpoints
    /\ pre.checkpoints[op.block_id.height] # op.block_id.hash
    /\ op.transactions # {}

IsAppend == op.name = "append"

\* C18: after lhs.append(rhs) the derivation indices of lhs hold exactly the
\* keychains of lhs or rhs, each with the maximum of the values it had in lhs
\* and rhs (its single value if only one had it), and no index of lhs has
\* decreased.
C18_AppendIsPointwiseMax ==
    IsAppend =>
        LET lhs == pre.derivation_indices
            rhs == op.other.derivation_indices
            new == keychain_changeset.derivation_indices
        IN /\ DOMAIN new = DOMAIN lhs \cup DOMAIN rhs
           /\ \A k \in DOMAIN new :
                new[k] = Max({lhs[j] : j \in {k} \cap DOMAIN lhs} \cup
                             {rhs[j] : j \in {k} \cap DOMAIN rhs})
           /\ \A k \in DOMAIN lhs : new[k] >= lhs[k]

\* the shape of the test: a keychain of both with the larger index in lhs, one
\* of both with index 0 in lhs and a larger one in rhs, one of lhs alone and
\* one of rhs alone
C18_Witness ==
    /\ IsAppend
    /\ \E k1, k2, k3, k4 \in Keychains :
        LET lhs == pre.derivation_indices
            rhs == op.other.derivation_indices
            new == keychain_changeset.derivation_indices
        IN /\ DOMAIN lhs = {k1, k2, k3}
           /\ DOMAIN rhs = {k1, k2, k4}
           /\ k4 \notin DOMAIN lhs
           /\ k3 \notin DOMAIN rhs
           /\ lhs[k1] > rhs[k1] /\ new[k1] = lhs[k1]
           /\ lhs[k2] = 0 /\ rhs[k2] > 0 /\ new[k2] = rhs[k2]
           /\ new[k3] = lhs[k3]
           /\ new[k4] = rhs[k4]

IsApplyBoth == op.name = "apply_both"

----
\* SparseChain::full_txout (src/bdk_core/src/sparse_chain.rs:322-347): the
\* sparse chain resolves an outpoint against a TxGraph the caller hands in.

\* the transactions of the tests: 1 has no input and one output; 2 and 3 both
\* spend that output
GraphTxids == {1, 2, 3}

\* Transaction::input: the previous_output of every input
Inputs(txid) == IF txid = 1 THEN {} ELSE {OutPoint(1, 0)}

\* Transaction::output: the value of the txout at each vout
Outputs(txid) == [vout \in {0} |-> 1]

OutPoints == {OutPoint(txid, 0) : txid \in GraphTxids}

\* struct TxGraph { txs, txouts }
TxGraph(txs_, txouts_) == [txs |-> txs_, txouts |-> txouts_]

\* the graphs a caller can have built: any of the transactions in full, and
\* a loose txout of the outpoint 1:0 while transaction 1 is not held in full
TxGraphs ==
    {TxGraph(txs_, <<>>) : txs_ \in SUBSET GraphTxids} \cup
    {TxGraph(txs_, [o \in {OutPoint(1, 0)} |-> v]) :
        txs_ \in SUBSET (GraphTxids \ {1}), v \in {1, 2}}

\* TxGraph::txout: the output of the full transaction if the graph holds it,
\* the loose txout otherwise
TxGraphTxout(graph, outpoint) ==
    IF outpoint[1] \in graph.txs
    THEN IF outpoint[2] \in DOMAIN Outputs(outpoint[1])
         THEN Some(Outputs(outpoint[1])[outpoint[2]]) ELSE None
    ELSE IF outpoint \in DOMAIN graph.txouts THEN Some(graph.txouts[outpoint])
    ELSE None

\* TxGraph::outspend: the txids of spends[outpoint], None when no transaction
\* of the graph spends the outpoint
Outspend(graph, outpoint) ==
    LET spenders == {txid \in graph.txs : outpoint \in Inputs(txid)}
    IN IF spenders = {} THEN None ELSE Some(spenders)

\* struct FullTxOut { outpoint, txout, height, spent_by }
FullTxOutOf(outpoint, txout, height, spent_by) ==
    [outpoint |-> outpoint, txout |-> txout, height |-> height, spent_by |-> spent_by]

\* SparseChain::full_txout: what the call can return. The spenders are the
\* txids of the outspend that txid_to_index holds; the debug build asserts
\* that there is at most one; txids.get(0) is the one the HashSet yields
\* first, any of them.
FullTxOut(c, graph, outpoint, debug) ==
    LET height == TransactionHeight(c, outpoint[1])
        txout == TxGraphTxout(graph, outpoint)
        outspend == Outspend(graph, outpoint)
        txids == IF IsSome(outspend)
                 THEN {txid \in outspend.val : txid \in DOMAIN c.txid_to_index}
                 ELSE {}
    IN IF ~IsSome(height) THEN {None}
       ELSE IF ~IsSome(txout) THEN {None}
       ELSE IF debug /\ Cardinality(txids) > 1 THEN {Panic}
       ELSE {Some(FullTxOutOf(outpoint, txout.val, height.val, spent_by)) :
                spent_by \in IF txids = {} THEN {None} ELSE {Some(txid) : txid \in txids}}

\* The graph machine: a caller that owns a sparse chain and a TxGraph of the
\* three transactions confirms blocks, applies updates of one transaction,
\* disconnects blocks and resolves outpoints.

\* the updates of at most one transaction that chain c expects
GraphUpdatesFor(c) ==
    {Update(t, ExpectedLastValid(c, Update(t, None, inv, tip)), inv, tip) :
        t \in {<<>>} \cup UNION {[{txid} -> TxHeights] : txid \in GraphTxids},
        inv \in OptBlockIds, tip \in BlockIds}

DoGraphApplyUpdate ==
    /\ Callable
    /\ \E update \in GraphUpdatesFor(Self) :
        \E r \in {ApplyUpdate(Self, update, order, debug) :
                    order \in Orders(DOMAIN update.txids), debug \in BOOLEAN} :
            /\ Becomes(r.chain)
            /\ result' = r.result
            /\ op' = [name |-> "apply_update", update |-> update]

DoGraphApplyBlockTxs ==
    /\ Callable
    /\ \E block_id \in BlockIds : \E transactions \in SUBSET GraphTxids :
        \E r \in {ApplyUpdate(Self, BlockTxsUpdate(Self, block_id, transactions), order, debug) :
                    order \in Orders(transactions), debug \in BOOLEAN} :
            /\ Becomes(r.chain)
            /\ result' = r.result
            /\ op' = [name |-> "apply_block_txs", block_id |-> block_id,
                      transactions |-> transactions]

DoFullTxOut ==
    /\ Callable
    /\ \E graph \in TxGraphs : \E outpoint \in OutPoints : \E debug \in BOOLEAN :
        \E r \in FullTxOut(Self, graph, outpoint, debug) :
            /\ Becomes(Self)
            /\ result' = r
            /\ op' = [name |-> "full_txout", graph |-> graph, outpoint |-> outpoint]

NextGraph ==
    \/ DoGraphApplyUpdate
    \/ DoGraphApplyBlockTxs
    \/ DoDisconnectBlock
    \/ DoFullTxOut
    \/ Continue

GraphSpec == Init /\ [][NextGraph]_vars

----
\* Properties of the sparse chain and the TxGraph.

IsFullTxOut == op.name = "full_txout"

\* the txids of the graph that spend the outpoint and are confirmed in the
\* sparse chain
ConfirmedSpenders(graph, outpoint) ==
    {txid \in graph.txs : outpoint \in Inputs(txid) /\ txid \in DOMAIN txid_to_index}

\* C21: No-Conflict-Among-Confirmed: whatever mutations succeeded, every
\* outpoint has at most one spender of the graph that is confirmed in the
\* sparse chain, and the debug assertion of full_txout never fails.
C21_NoConflictAmongConfirmed ==
    /\ \A graph \in TxGraphs : \A outpoint \in OutPoints :
        Cardinality(ConfirmedSpenders(graph, outpoint)) <= 1
    /\ ~(IsFullTxOut /\ result = Panic)

\* the txids of the graph that spend the outpoint and are resident in chain
\* c, confirmed or in its mempool
ResidentSpenders(c, graph, outpoint) ==
    {txid \in graph.txs : outpoint \in Inputs(txid) /\ IsSome(TransactionHeight(c, txid))}

\* C28: the spent_by of the FullTxOut that full_txout builds is the one
\* transaction spending the outpoint that is resident in the chain, confirmed
\* or unconfirmed, and is None only when no resident transaction spends it.
C28_SpenderResolution ==
    (IsFullTxOut /\ IsSome(result)) =>
        LET resident == ResidentSpenders(Self, op.graph, op.outpoint)
            spent_by == result.val.spent_by
        IN /\ spent_by = None <=> resident = {}
           /\ IsSome(spent_by) => resident = {spent_by.val}

\* full_txout reports no spender although a transaction of the mempool
\* spends the outpoint
C28_MempoolSpenderUnreported ==
    /\ IsFullTxOut
    /\ IsSome(result)
    /\ result.val.spent_by = None
    /\ \E txid \in mempool : txid \in ResidentSpenders(Self, op.graph, op.outpoint)

\* what full_txout reports is never a transaction that only the graph knows
C28_SpenderIsResident ==
    (IsFullTxOut /\ IsSome(result) /\ IsSome(result.val.spent_by)) =>
        result.val.spent_by.val \in ResidentSpenders(Self, op.graph, op.outpoint)

----
\* ChainGraph (bdk_chain): a sparse chain of checkpoints and of the position
\* of each txid, and a TxGraph, as src/bdk_chain/tests/test_chain_graph.rs
\* drives them.

\* Bound of the model: the highest block of the chain graphs.
MaxChainHeight == 1

ChainHeights == 0..MaxChainHeight

\* the positions P = TxHeight of the transactions of a chain graph
Positions == {Confirmed(h) : h \in ChainHeights} \cup {Unconfirmed}

\* #[derive(PartialOrd, Ord)] on enum TxHeight { Confirmed(u32), Unconfirmed }:
\* the index of the variant in the declaration
VariantIndex(p) == IF p.tag = "Confirmed" THEN 0 ELSE 1

\* the derived order with the variants declared the other way round
TxHeightLessUnconfirmedFirst(a, b) ==
    \/ VariantIndex(a) > VariantIndex(b)
    \/ VariantIndex(a) = VariantIndex(b) /\ a.tag = "Confirmed" /\ a.h < b.h

\* the derived order: by variant first, two Confirmed by their height
TxHeightLess(a, b) ==
    \/ VariantIndex(a) < VariantIndex(b)
    \/ VariantIndex(a) = VariantIndex(b) /\ a.tag = "Confirmed" /\ a.h < b.h

\* struct ChainGraph { chain, graph }
ChainGraph(checkpoints_, txids_, txs_, txouts_) ==
    [chain |-> [checkpoints |-> checkpoints_, txids |-> txids_],
     graph |-> TxGraph(txs_, txouts_)]

\* ChainGraph::default()
ChainGraphDefault == ChainGraph(<<>>, <<>>, {}, <<>>)

\* Result::Ok(value)
OkOf(value) == [tag |-> "Ok", val |-> value]
IsOk(r) == r.tag = "Ok"

\* UpdateError::UnresolvableConflict { already_confirmed_tx, update_tx }
UnresolvableConflict(already_confirmed_tx, update_tx) ==
    [kind |-> "UnresolvableConflict", already_confirmed_tx |-> already_confirmed_tx,
     update_tx |-> update_tx]

\* UpdateError of the sparse chain: the update moves a confirmed txid
TxInconsistentError(txid, original_pos, update_pos) ==
    [kind |-> "TxInconsistent", txid |-> txid, original_pos |-> original_pos,
     update_pos |-> update_pos]

\* InflateError::Missing(set)
Missing(txids_) == [kind |-> "Missing", txids |-> txids_]

\* the lowest height at which the update replaces a checkpoint of the chain
\* by one with another hash: the update invalidates the chain from there on
InvalidFrom(chain, update) ==
    LET differing == {h \in DOMAIN chain.checkpoints \cap DOMAIN update.checkpoints :
                        chain.checkpoints[h] # update.checkpoints[h]}
    IN IF differing = {} THEN None ELSE Some(Min(differing))

\* the update invalidates height h
Invalidated(chain, update, h) ==
    IsSome(InvalidFrom(chain, update)) /\ h >= InvalidFrom(chain, update).val

\* SparseChain::determine_changeset of bdk_chain, the update being a chain:
\* what the call can return. A txid confirmed below the invalidation may not
\* move; the diff holds Some(hash) for each checkpoint that differs and None
\* for each invalidated one the update lacks, Some(position) for each txid
\* whose position differs and None for each txid the invalidation removes
\* (the confirmed ones from the invalidated heights, and the mempool).
SparseChainDetermineChangeset(chain, update) ==
    LET inconsistent == {t \in DOMAIN chain.txids \cap DOMAIN update.txids :
                            /\ chain.txids[t].tag = "Confirmed"
                            /\ ~Invalidated(chain, update, chain.txids[t].h)
                            /\ update.txids[t] # chain.txids[t]}
        new_cps == {h \in DOMAIN update.checkpoints :
                        h \notin DOMAIN chain.checkpoints
                        \/ chain.checkpoints[h] # update.checkpoints[h]}
        gone_cps == {h \in DOMAIN chain.checkpoints \ DOMAIN update.checkpoints :
                        Invalidated(chain, update, h)}
        moved == {t \in DOMAIN update.txids :
                        t \notin DOMAIN chain.txids \/ chain.txids[t] # update.txids[t]}
        gone == {t \in DOMAIN chain.txids \ DOMAIN update.txids :
                    /\ IsSome(InvalidFrom(chain, update))
                    /\ \/ chain.txids[t] = Unconfirmed
                       \/ Invalidated(chain, update, chain.txids[t].h)}
    IN IF inconsistent # {}
       THEN {Err(TxInconsistentError(t, chain.txids[t], update.txids[t])) : t \in inconsistent}
       ELSE {OkOf([checkpoints |-> [h \in new_cps \cup gone_cps |->
                        IF h \in new_cps THEN Some(update.checkpoints[h]) ELSE None],
                   txids |-> [t \in moved \cup gone |->
                        IF t \in moved THEN Some(update.txids[t]) ELSE None]])}

\* the conflicts when only the confirmed transactions of the chain are looked
\* at: a mempool transaction is never found to conflict
ConflictsOfConfirmed(chain_graph, update) ==
    LET union_txs == chain_graph.graph.txs \cup update.graph.txs
    IN {c \in (DOMAIN chain_graph.chain.txids \cap union_txs)
                \X (DOMAIN update.chain.txids \cap union_txs) :
            /\ c[1] # c[2]
            /\ Inputs(c[1]) \cap Inputs(c[2]) # {}
            /\ chain_graph.chain.txids[c[1]].tag = "Confirmed"}

\* the pairs (old, new): new is a transaction of the update, old another
\* transaction resident in the chain, and the graph with the additions of the
\* update records both as spending one outpoint
ConflictsOf(chain_graph, update) ==
    LET union_txs == chain_graph.graph.txs \cup update.graph.txs
    IN {c \in (DOMAIN chain_graph.chain.txids \cap union_txs)
                \X (DOMAIN update.chain.txids \cap union_txs) :
            c[1] # c[2] /\ Inputs(c[1]) \cap Inputs(c[2]) # {}}

\* the conflict rule with the invalidation tested whatever its height: a
\* confirmed old is evicted as soon as the update invalidates anything
UnresolvableWithoutInvalidation(chain_graph, update, old) ==
    /\ chain_graph.chain.txids[old].tag = "Confirmed"
    /\ ~IsSome(InvalidFrom(chain_graph.chain, update.chain))

\* the conflict rule without the test of the invalidation: a confirmed old is
\* never evicted
UnresolvableWheneverConfirmed(chain_graph, update, old) ==
    chain_graph.chain.txids[old].tag = "Confirmed"

\* old is confirmed and the update invalidates no checkpoint at or below it
Unresolvable(chain_graph, update, old) ==
    /\ chain_graph.chain.txids[old].tag = "Confirmed"
    /\ ~Invalidated(chain_graph.chain, update.chain, chain_graph.chain.txids[old].h)

\* the loose txouts of the additions: those whose outpoint and parent
\* transaction the graph does not hold
NewTxouts(graph, txouts_) ==
    MapRemove(txouts_, {o \in DOMAIN txouts_ : o \in DOMAIN graph.txouts \/ o[1] \in graph.txs})

\* ChainGraph::determine_changeset: what the call can return. The diff of the
\* sparse chains first; then each transaction of the chain that conflicts
\* with one of the update is evicted (txids[old] = None), unless one of them
\* is unresolvable; the additions are what the graph of the update holds and
\* this graph lacks.
ChainGraphDetermineChangeset(chain_graph, update) ==
    LET conflicts == ConflictsOf(chain_graph, update)
        unresolvable == {c \in conflicts : Unresolvable(chain_graph, update, c[1])}
        evicted == {c[1] : c \in conflicts}
        Fixed(chain) ==
            IF unresolvable # {}
            THEN {Err(UnresolvableConflict(
                        <<chain_graph.chain.txids[c[1]], c[1]>>,
                        <<update.chain.txids[c[2]], c[2]>>)) : c \in unresolvable}
            ELSE {OkOf(ChainGraphChangeSet(
                        chain.checkpoints,
                        MapOverlay(chain.txids, [old \in evicted |-> None]),
                        update.graph.txs \ chain_graph.graph.txs,
                        NewTxouts(chain_graph.graph, update.graph.txouts)))}
    IN UNION {IF IsOk(r) THEN Fixed(r.val) ELSE {r} :
                r \in SparseChainDetermineChangeset(chain_graph.chain, update.chain)}

\* ChainGraph::apply_update: determine_changeset, then apply_changeset of
\* what it returned: the chain graphs and results the call can leave
ChainGraphApplyUpdate(chain_graph, update) ==
    {[chain_graph |-> IF IsOk(r) THEN ChainGraphApplyChangeset(chain_graph, r.val)
                      ELSE chain_graph,
      result |-> r] : r \in ChainGraphDetermineChangeset(chain_graph, update)}

\* InsertTxError / InsertCheckpointError
TxTooHigh == [kind |-> "TxTooHigh"]
HashNotMatching == [kind |-> "HashNotMatching"]

\* ChainGraph::insert_tx: a confirmed position above the latest checkpoint is
\* refused; otherwise the transaction goes in as an update of that one
\* transaction does
ChainGraphInsertTx(chain_graph, tx, pos) ==
    IF /\ pos.tag = "Confirmed"
       /\ \A h \in DOMAIN chain_graph.chain.checkpoints : h < pos.h
    THEN {[chain_graph |-> chain_graph, result |-> Err(TxTooHigh)]}
    ELSE ChainGraphApplyUpdate(chain_graph, ChainGraph(<<>>, [t \in {tx} |-> pos], {tx}, <<>>))

\* ChainGraph::insert_checkpoint: a checkpoint at a height that holds another
\* hash is refused
ChainGraphInsertCheckpoint(chain_graph, block_id) ==
    IF /\ block_id.height \in DOMAIN chain_graph.chain.checkpoints
       /\ chain_graph.chain.checkpoints[block_id.height] # block_id.hash
    THEN {[chain_graph |-> chain_graph, result |-> Err(HashNotMatching)]}
    ELSE ChainGraphApplyUpdate(chain_graph,
            ChainGraph([h \in {block_id.height} |-> block_id.hash], <<>>, {}, <<>>))

\* ChainGraph::insert_txout: an addition only if the graph holds neither the
\* outpoint nor its transaction
ChainGraphInsertTxout(chain_graph, outpoint, txout) ==
    LET changeset == ChainGraphChangeSet(<<>>, <<>>, {},
                        NewTxouts(chain_graph.graph, [o \in {outpoint} |-> txout]))
    IN [chain_graph |-> ChainGraphApplyChangeset(chain_graph, changeset),
        result |-> OkOf(changeset)]

\* inflate_changeset taking a loose txout of a txid for the transaction
InflateChangesetLooseCounts(chain_graph, changeset, txs_) ==
    LET missing == {t \in DOMAIN changeset.txids :
                        /\ IsSome(changeset.txids[t])
                        /\ t \notin chain_graph.graph.txs
                        /\ \A o \in DOMAIN chain_graph.graph.txouts : o[1] # t
                        /\ t \notin txs_}
    IN IF missing # {} THEN Err(Missing(missing))
       ELSE OkOf(ChainGraphChangeSet(changeset.checkpoints, changeset.txids, txs_, <<>>))

\* ChainGraph::inflate_changeset: every txid the chain changeset gives a
\* position must be a full transaction of the graph or of txs
InflateChangeset(chain_graph, changeset, txs_) ==
    LET missing == {t \in DOMAIN changeset.txids :
                        /\ IsSome(changeset.txids[t])
                        /\ t \notin chain_graph.graph.txs
                        /\ t \notin txs_}
    IN IF missing # {} THEN Err(Missing(missing))
       ELSE OkOf(ChainGraphChangeSet(changeset.checkpoints, changeset.txids, txs_, <<>>))

\* ChainGraph::spent_by: the spenders of the outpoint that are resident in
\* the chain, each with its position; None when there is none
SpentBy(chain_graph, outpoint) ==
    LET spenders == {txid \in chain_graph.graph.txs :
                        outpoint \in Inputs(txid) /\ txid \in DOMAIN chain_graph.chain.txids}
    IN IF spenders = {} THEN {None}
       ELSE {Some(<<chain_graph.chain.txids[txid], txid>>) : txid \in spenders}

\* ChainGraph::transactions_in_chain: the (position, txid) of the chain, no
\* later one at a position less than that of an earlier one
TransactionsInChain(chain_graph) ==
    {[i \in DOMAIN order |-> <<chain_graph.chain.txids[order[i]], order[i]>>] :
        order \in {o \in Orders(DOMAIN chain_graph.chain.txids) :
                    \A i, j \in DOMAIN o :
                        i < j => ~TxHeightLess(chain_graph.chain.txids[o[j]],
                                               chain_graph.chain.txids[o[i]])}}

\* The chain graph machine: a caller that owns the chain graph of the tracker
\* inserts checkpoints, transactions and txouts, determines and applies the
\* changeset of an update, and inflates chain changesets.

\* the transactions a chain graph can hold in its chain: no two that spend
\* the same outpoint
ConflictFree == {T \in SUBSET GraphTxids : \A a, b \in T : a # b => Inputs(a) \cap Inputs(b) = {}}

\* the chain graphs a caller can build with insert_checkpoint and insert_tx
\* and hand over as updates: every confirmed position under a checkpoint
ChainGraphUpdates ==
    {ChainGraph(u[1], u[2], DOMAIN u[2], <<>>) :
        u \in {v \in (UNION {[S -> Hashes] : S \in SUBSET ChainHeights})
                        \X (UNION {[T -> Positions] : T \in ConflictFree}) :
                \A t \in DOMAIN v[2] :
                    v[2][t].tag = "Confirmed" => \E h \in DOMAIN v[1] : h >= v[2][t].h}}

\* the chain changesets a caller inflates
InflatedChangeSets ==
    {[checkpoints |-> c, txids |-> t] :
        c \in {<<>>, [h \in {0} |-> Some(1)]},
        t \in UNION {[T -> {None, Some(Confirmed(0))}] : T \in SUBSET GraphTxids}}

\* the chain graph of the tracker after a call, and what the call returned
ChainGraphBecomes(chain_graph, r) ==
    /\ tracker' = [tracker EXCEPT !.chain_graph = chain_graph]
    /\ result' = r
    /\ pre' = tracker.chain_graph
    /\ UNCHANGED <<checkpoints, txid_by_height, txid_to_index, mempool, checkpoint_limit,
                   keychain_changeset, db, stdout>>

DoInsertCheckpoint ==
    /\ Callable
    /\ \E block_id \in {BlockId(h, x) : h \in ChainHeights, x \in Hashes} :
        \E r \in ChainGraphInsertCheckpoint(tracker.chain_graph, block_id) :
            /\ ChainGraphBecomes(r.chain_graph, r.result)
            /\ op' = [name |-> "insert_checkpoint", block_id |-> block_id]

DoInsertTx ==
    /\ Callable
    /\ \E tx \in GraphTxids : \E pos \in Positions :
        \E r \in ChainGraphInsertTx(tracker.chain_graph, tx, pos) :
            /\ ChainGraphBecomes(r.chain_graph, r.result)
            /\ op' = [name |-> "insert_tx", tx |-> tx, pos |-> pos]

DoInsertTxout ==
    /\ Callable
    /\ \E outpoint \in {OutPoint(1, 0)} : \E txout \in {1} :
        LET r == ChainGraphInsertTxout(tracker.chain_graph, outpoint, txout)
        IN /\ ChainGraphBecomes(r.chain_graph, r.result)
           /\ op' = [name |-> "insert_txout", outpoint |-> outpoint, txout |-> txout]

DoDetermineChangeset ==
    /\ Callable
    /\ \E update \in ChainGraphUpdates :
        \E r \in ChainGraphDetermineChangeset(tracker.chain_graph, update) :
            /\ ChainGraphBecomes(tracker.chain_graph, r)
            /\ op' = [name |-> "determine_changeset", update |-> update]

\* apply_changeset of the changeset determine_changeset just returned
DoApplyChangeset ==
    /\ op.name = "determine_changeset"
    /\ IsOk(result)
    /\ ChainGraphBecomes(ChainGraphApplyChangeset(tracker.chain_graph, result.val), Ok)
    /\ op' = [name |-> "apply_changeset", changeset |-> result.val, update |-> op.update]

DoChainGraphApplyUpdate ==
    /\ Callable
    /\ \E update \in ChainGraphUpdates :
        \E r \in ChainGraphApplyUpdate(tracker.chain_graph, update) :
            /\ ChainGraphBecomes(r.chain_graph, r.result)
            /\ op' = [name |-> "chain_graph_apply_update", update |-> update]

DoInflateChangeset ==
    /\ Callable
    /\ \E changeset \in InflatedChangeSets : \E txs_ \in SUBSET GraphTxids :
        /\ ChainGraphBecomes(tracker.chain_graph,
                             InflateChangeset(tracker.chain_graph, changeset, txs_))
        /\ op' = [name |-> "inflate_changeset", changeset |-> changeset, txs |-> txs_]

\* the caller has looked at the result and goes on
ContinueChainGraph ==
    /\ op # Idle
    /\ ChainGraphBecomes(tracker.chain_graph, Ok)
    /\ op' = Idle

NextChainGraph ==
    \/ DoInsertCheckpoint
    \/ DoInsertTx
    \/ DoInsertTxout
    \/ DoDetermineChangeset
    \/ DoApplyChangeset
    \/ DoChainGraphApplyUpdate
    \/ DoInflateChangeset
    \/ ContinueChainGraph

ChainGraphSpec == Init /\ [][NextChainGraph]_vars

----
\* Properties of the chain graph.

IsDetermineChangeset == op.name = "determine_changeset"
IsChainGraphApplyUpdate == op.name = "chain_graph_apply_update"
IsApplyChangeset == op.name = "apply_changeset"

\* the update brings the transaction new, which the chain graph does not know
Introduces(chain_graph, update, new) ==
    /\ new \in DOMAIN update.chain.txids
    /\ new \notin DOMAIN chain_graph.chain.txids
    /\ new \notin chain_graph.graph.txs

\* old is a transaction of the chain that spends an outpoint new spends
ConflictsWith(chain_graph, old, new) ==
    /\ old \in DOMAIN chain_graph.chain.txids
    /\ old \in chain_graph.graph.txs
    /\ old # new
    /\ Inputs(old) \cap Inputs(new) # {}

\* C22: when an update introduces a transaction new that spends an outpoint
\* an unconfirmed transaction old of the chain spends, determine_changeset
\* does not fail because of old, and succeeds when new is all the update
\* brings; the changeset holds txids[old] = None, txids[new] = Some(position
\* of new) and new among the additions, and nothing else when it holds no
\* checkpoint and new is all the update brings; once it is applied,
\* spent_by of the outpoint is new.
C22_MempoolEviction ==
    \A old, new \in GraphTxids :
        (/\ IsDetermineChangeset \/ IsChainGraphApplyUpdate \/ IsApplyChangeset
         /\ Introduces(pre, op.update, new)
         /\ ConflictsWith(pre, old, new)
         /\ pre.chain.txids[old] = Unconfirmed) =>
            LET alone == DOMAIN op.update.chain.txids = {new}
                changeset == IF IsApplyChangeset THEN op.changeset ELSE result.val
                applied == IsApplyChangeset \/ (IsChainGraphApplyUpdate /\ IsOk(result))
            IN /\ ~IsApplyChangeset =>
                    /\ IsErr(result) =>
                        ~(/\ result.err.kind = "UnresolvableConflict"
                          /\ result.err.already_confirmed_tx[2] = old)
                    /\ alone => IsOk(result)
               /\ (IsApplyChangeset \/ IsOk(result)) =>
                    /\ {old, new} \subseteq DOMAIN changeset.chain.txids
                    /\ changeset.chain.txids[old] = None
                    /\ changeset.chain.txids[new] = Some(op.update.chain.txids[new])
                    /\ new \in changeset.graph.tx
                    /\ (alone /\ changeset.chain.checkpoints = <<>>) =>
                        /\ DOMAIN changeset.chain.txids = {old, new}
                        /\ changeset.graph.tx = {new}
                        /\ changeset.graph.txout = <<>>
               /\ applied =>
                    \A outpoint \in Inputs(old) \cap Inputs(new) :
                        SpentBy(tracker.chain_graph, outpoint) =
                            {Some(<<op.update.chain.txids[new], new>>)}

\* the changeset that evicts the unconfirmed old for new has been applied,
\* and new is now the spender
C22_Witness ==
    /\ IsApplyChangeset
    /\ \E old, new \in GraphTxids :
        /\ Introduces(pre, op.update, new)
        /\ ConflictsWith(pre, old, new)
        /\ pre.chain.txids[old] = Unconfirmed
        /\ op.changeset.chain.checkpoints = <<>>
        /\ old \notin DOMAIN tracker.chain_graph.chain.txids
        /\ \E outpoint \in Inputs(new) :
            SpentBy(tracker.chain_graph, outpoint) = {Some(<<op.update.chain.txids[new], new>>)}

\* the update invalidates the checkpoint that covers height h: the lowest
\* checkpoint of the chain at or above h
InvalidatesCovering(chain, update, h) ==
    \E c \in DOMAIN chain.checkpoints :
        /\ c >= h
        /\ \A d \in DOMAIN chain.checkpoints : d >= h => c <= d
        /\ Invalidated(chain, update, c)

\* new is a transaction of the update, old a transaction confirmed in the
\* chain that spends an outpoint new spends, and the update does not
\* invalidate the checkpoint covering old
ConfirmedConflict(chain_graph, update, old, new) ==
    /\ new \in DOMAIN update.chain.txids
    /\ ConflictsWith(chain_graph, old, new)
    /\ chain_graph.chain.txids[old].tag = "Confirmed"
    /\ ~InvalidatesCovering(chain_graph.chain, update.chain, chain_graph.chain.txids[old].h)

\* C23: when a transaction new of the update spends an outpoint that old,
\* confirmed in the chain at h, spends, and the update does not invalidate
\* the checkpoint covering h, determine_changeset and apply_update fail and
\* leave the chain graph as it was; the error is UnresolvableConflict with
\* already_confirmed_tx = (Confirmed(h), old) and update_tx = (position of
\* new, new), unless the sparse chain refuses the update for a transaction it
\* moves.
C23_UnresolvableConflict ==
    \A old, new \in GraphTxids :
        (/\ IsDetermineChangeset \/ IsChainGraphApplyUpdate
         /\ ConfirmedConflict(pre, op.update, old, new)) =>
            /\ IsErr(result)
            /\ tracker.chain_graph = pre
            /\ result.err.kind \in {"UnresolvableConflict", "TxInconsistent"}
            /\ result.err.kind = "UnresolvableConflict" =>
                result.err = UnresolvableConflict(<<pre.chain.txids[old], old>>,
                                                  <<op.update.chain.txids[new], new>>)
            /\ DOMAIN op.update.chain.txids = {new} => result.err.kind = "UnresolvableConflict"

\* apply_update has refused an update, which replaces a checkpoint above old,
\* with the unresolvable conflict of old and new
C23_Witness ==
    /\ IsChainGraphApplyUpdate
    /\ IsErr(result)
    /\ result.err.kind = "UnresolvableConflict"
    /\ IsSome(InvalidFrom(pre.chain, op.update.chain))
    /\ \E old, new \in GraphTxids :
        /\ ConfirmedConflict(pre, op.update, old, new)
        /\ result.err.already_confirmed_tx = <<pre.chain.txids[old], old>>
        /\ result.err.update_tx = <<op.update.chain.txids[new], new>>

\* the update replaces the checkpoint of the chain at height h by one with
\* another hash
Replaces(chain, update, h) ==
    /\ h \in DOMAIN chain.checkpoints \cap DOMAIN update.checkpoints
    /\ chain.checkpoints[h] # update.checkpoints[h]

\* new, which the update introduces, conflicts with old, confirmed in the
\* chain at or above the height h of a checkpoint the update replaces
ReorgConflict(chain_graph, update, h, old, new) ==
    /\ Replaces(chain_graph.chain, update.chain, h)
    /\ Introduces(chain_graph, update, new)
    /\ ConflictsWith(chain_graph, old, new)
    /\ chain_graph.chain.txids[old].tag = "Confirmed"
    /\ chain_graph.chain.txids[old].h >= h

\* the update differs from the chain graph as in the test: the same heights
\* of checkpoints, only that at h replaced; new its only transaction; old the
\* only transaction of the chain that is unconfirmed or at h or above
OnlyReorgOf(chain_graph, update, h, old, new) ==
    /\ DOMAIN update.chain.checkpoints = DOMAIN chain_graph.chain.checkpoints
    /\ \A k \in DOMAIN update.chain.checkpoints :
        Replaces(chain_graph.chain, update.chain, k) => k = h
    /\ DOMAIN update.chain.txids = {new}
    /\ \A t \in DOMAIN chain_graph.chain.txids \ {old} :
        chain_graph.chain.txids[t].tag = "Confirmed" /\ chain_graph.chain.txids[t].h < h

\* C24: when the update replaces the checkpoint at height h by one with
\* another hash and introduces a transaction new that conflicts with old,
\* confirmed in the chain at h or above, determine_changeset does not fail
\* because of old, and succeeds when new is all the update brings; the
\* changeset holds checkpoints[h] = Some(new hash), txids[old] = None,
\* txids[new] = Some(position of new), new among the additions and no
\* checkpoint that is equal in chain and update; it holds nothing else when
\* the update differs from the chain by that checkpoint and new only.
C24_ReorgEviction ==
    \A h \in ChainHeights : \A old, new \in GraphTxids :
        (/\ IsDetermineChangeset \/ IsChainGraphApplyUpdate
         /\ ReorgConflict(pre, op.update, h, old, new)) =>
            /\ IsErr(result) =>
                ~(/\ result.err.kind = "UnresolvableConflict"
                  /\ result.err.already_confirmed_tx[2] = old)
            /\ DOMAIN op.update.chain.txids = {new} => IsOk(result)
            /\ IsOk(result) =>
                LET changeset == result.val
                IN /\ h \in DOMAIN changeset.chain.checkpoints
                   /\ changeset.chain.checkpoints[h] = Some(op.update.chain.checkpoints[h])
                   /\ {old, new} \subseteq DOMAIN changeset.chain.txids
                   /\ changeset.chain.txids[old] = None
                   /\ changeset.chain.txids[new] = Some(op.update.chain.txids[new])
                   /\ new \in changeset.graph.tx
                   /\ \A k \in DOMAIN pre.chain.checkpoints \cap DOMAIN op.update.chain.checkpoints :
                        pre.chain.checkpoints[k] = op.update.chain.checkpoints[k] =>
                            k \notin DOMAIN changeset.chain.checkpoints
                   /\ OnlyReorgOf(pre, op.update, h, old, new) =>
                        /\ DOMAIN changeset.chain.checkpoints = {h}
                        /\ DOMAIN changeset.chain.txids = {old, new}
                        /\ changeset.graph.tx = {new}
                        /\ changeset.graph.txout = <<>>

\* determine_changeset has returned the changeset of a reorg at height h that
\* evicts the confirmed old for new while the checkpoint below h, equal in
\* chain and update, stays out of it
C24_Witness ==
    /\ IsDetermineChangeset
    /\ IsOk(result)
    /\ \E h \in ChainHeights : \E old, new \in GraphTxids :
        /\ ReorgConflict(pre, op.update, h, old, new)
        /\ OnlyReorgOf(pre, op.update, h, old, new)
        /\ \E k \in DOMAIN pre.chain.checkpoints \cap DOMAIN op.update.chain.checkpoints :
            k < h /\ pre.chain.checkpoints[k] = op.update.chain.checkpoints[k]
        /\ DOMAIN result.val.chain.checkpoints = {h}
        /\ result.val.chain.txids[old] = None

IsInflateChangeset == op.name = "inflate_changeset"

\* the txids the changeset gives a position that are neither full
\* transactions of the graph nor among the transactions supplied
StillMissing(chain_graph, changeset, txs_) ==
    {t \in DOMAIN changeset.txids :
        IsSome(changeset.txids[t]) /\ t \notin chain_graph.graph.txs /\ t \notin txs_}

\* C25: inflate_changeset(change, txs) returns Err(InflateError::Missing(S)),
\* S being the txids change gives a position that are neither full
\* transactions of the graph nor supplied in txs, a loose txout not counting;
\* when S is empty it returns Ok of change with the supplied transactions as
\* the additions of the graph, and the chain graph stays as it was.
C25_InflateClosure ==
    IsInflateChangeset =>
        LET S == StillMissing(pre, op.changeset, op.txs)
        IN /\ tracker.chain_graph = pre
           /\ S # {} => result = Err(Missing(S))
           /\ S = {} =>
                /\ IsOk(result)
                /\ result.val.chain = op.changeset
                /\ result.val.graph = [tx |-> op.txs, txout |-> <<>>]

\* inflate_changeset has reported as missing a txid of which the graph holds
\* a loose txout, next to a call that supplied the transactions and succeeded
C25_Witness ==
    /\ IsInflateChangeset
    /\ IsErr(result)
    /\ \E t \in result.err.txids : \E o \in DOMAIN pre.graph.txouts : o[1] = t
    /\ \E t \in DOMAIN op.changeset.txids :
        IsSome(op.changeset.txids[t]) /\ t \in op.txs /\ t \notin result.err.txids

\* inflate_changeset has succeeded with transactions supplied
C25_WitnessOk ==
    /\ IsInflateChangeset
    /\ IsOk(result)
    /\ op.txs # {}
    /\ \E t \in op.txs \cap DOMAIN op.changeset.txids :
        t \notin pre.graph.txs /\ IsSome(op.changeset.txids[t])

----
\* The reorg machine: a chain graph built with insert_checkpoint and
\* insert_tx takes an update and, when that update replaced a checkpoint and
\* evicted a transaction for a conflicting one, a second update
\* (test_apply_changes_reintroduce_tx).

\* the update replaced the checkpoint at h and the transaction a of the chain
\* by the conflicting b, which it put at h or above or left unconfirmed
ReplacedBy(before, update, changeset, h, a, b) ==
    /\ Replaces(before.chain, update.chain, h)
    /\ ConflictsWith(before, a, b)
    /\ b \in DOMAIN update.chain.txids
    /\ update.chain.txids[b].tag = "Confirmed" => update.chain.txids[b].h >= h
    /\ {a, b} \subseteq DOMAIN changeset.chain.txids
    /\ changeset.chain.txids[a] = None
    /\ changeset.chain.txids[b] = Some(update.chain.txids[b])

InitReintroduce ==
    /\ checkpoints = Default.checkpoints
    /\ txid_by_height = Default.txid_by_height
    /\ txid_to_index = Default.txid_to_index
    /\ mempool = Default.mempool
    /\ checkpoint_limit = Default.checkpoint_limit
    /\ keychain_changeset = KeychainChangeSetDefault
    /\ op = Idle
    /\ result = Ok
    /\ tracker \in {[KeychainTrackerDefault EXCEPT !.chain_graph = cg] : cg \in ChainGraphUpdates}
    /\ db = KeychainStoreDefault
    /\ stdout = <<>>
    /\ pre = tracker.chain_graph

DoFirstUpdate ==
    /\ op = Idle
    /\ \E update \in ChainGraphUpdates :
        \E r \in ChainGraphApplyUpdate(tracker.chain_graph, update) :
            /\ ChainGraphBecomes(r.chain_graph, r.result)
            /\ op' = [name |-> "first_update", update |-> update]

DoSecondUpdate ==
    /\ op.name = "first_update"
    /\ IsOk(result)
    /\ \E h \in ChainHeights : \E a, b \in GraphTxids :
        ReplacedBy(pre, op.update, result.val, h, a, b)
    /\ \E update \in ChainGraphUpdates :
        \E r \in ChainGraphApplyUpdate(tracker.chain_graph, update) :
            /\ ChainGraphBecomes(r.chain_graph, r.result)
            /\ op' = [name |-> "second_update", update |-> update,
                      first |-> [before |-> pre, update |-> op.update, changeset |-> result.val]]

NextReintroduce ==
    \/ DoFirstUpdate
    \/ DoSecondUpdate

ReintroduceSpec == InitReintroduce /\ [][NextReintroduce]_vars

IsSecondUpdate == op.name = "second_update"

\* the second update replaces the checkpoint at h again and confirms a at h,
\* after a first one that replaced the checkpoint at h and a by b
Reintroduces(h, a, b) ==
    /\ IsSecondUpdate
    /\ ReplacedBy(op.first.before, op.first.update, op.first.changeset, h, a, b)
    /\ Replaces(pre.chain, op.update.chain, h)
    /\ a \in DOMAIN op.update.chain.txids
    /\ op.update.chain.txids[a] = Confirmed(h)

\* C26: after an update that replaced the checkpoint at h and the transaction
\* a by the conflicting b, a second update that replaces the checkpoint at h
\* again and confirms a at h does not fail because of b, and succeeds when a
\* is all it brings; its changeset holds txids[b] = None and txids[a] =
\* Some(Confirmed(h)) and does not add a to the graph (no addition at all
\* when a is all it brings); then a is confirmed at h under the checkpoint
\* of the second update, b is out of the chain and still in the graph, and
\* the graph has lost no transaction.
C26_Reintroduce ==
    \A h \in ChainHeights : \A a, b \in GraphTxids :
        Reintroduces(h, a, b) =>
            LET alone == DOMAIN op.update.chain.txids = {a}
            IN /\ IsErr(result) =>
                    ~(/\ result.err.kind = "UnresolvableConflict"
                      /\ result.err.already_confirmed_tx[2] = b)
               /\ alone => IsOk(result)
               /\ IsOk(result) =>
                    /\ {a, b} \subseteq DOMAIN result.val.chain.txids
                    /\ result.val.chain.txids[b] = None
                    /\ result.val.chain.txids[a] = Some(Confirmed(h))
                    /\ a \notin result.val.graph.tx
                    /\ alone => result.val.graph = [tx |-> {}, txout |-> <<>>]
                    /\ a \in DOMAIN tracker.chain_graph.chain.txids
                    /\ tracker.chain_graph.chain.txids[a] = Confirmed(h)
                    /\ tracker.chain_graph.chain.checkpoints[h] = op.update.chain.checkpoints[h]
                    /\ b \notin DOMAIN tracker.chain_graph.chain.txids
                    /\ b \in tracker.chain_graph.graph.txs
                    /\ op.first.before.graph.txs \subseteq pre.graph.txs
                    /\ pre.graph.txs \subseteq tracker.chain_graph.graph.txs

\* the second update has put a back at h, where the first had confirmed b
C26_Witness ==
    /\ IsOk(result)
    /\ \E h \in ChainHeights : \E a, b \in GraphTxids :
        /\ Reintroduces(h, a, b)
        /\ op.first.before.chain.txids[a] = Confirmed(h)
        /\ op.first.update.chain.txids[b] = Confirmed(h)
        /\ op.first.update.chain.checkpoints[h] # op.update.chain.checkpoints[h]
        /\ tracker.chain_graph.chain.txids[a] = Confirmed(h)
        /\ b \in tracker.chain_graph.graph.txs \ DOMAIN tracker.chain_graph.chain.txids

----
\* Properties of the queries of the chain graph.

\* position p comes before position q as the claim orders them: Confirmed(a)
\* before Confirmed(b) iff a < b, every Confirmed before Unconfirmed
Precedes(p, q) ==
    \/ p.tag = "Confirmed" /\ q.tag = "Confirmed" /\ p.h < q.h
    \/ p.tag = "Confirmed" /\ q = Unconfirmed

\* C27: transactions_in_chain yields every transaction resident in the chain
\* exactly once, each with its position, in ascending order of position:
\* Confirmed(a) before Confirmed(b) iff a < b, every Confirmed before
\* Unconfirmed, whatever the order in which they were inserted.
C27_TransactionsInOrder ==
    /\ \A p, q \in Positions : TxHeightLess(p, q) <=> Precedes(p, q)
    /\ TransactionsInChain(tracker.chain_graph) # {}
    /\ \A s \in TransactionsInChain(tracker.chain_graph) :
        /\ Len(s) = Cardinality(DOMAIN tracker.chain_graph.chain.txids)
        /\ {s[i][2] : i \in DOMAIN s} = DOMAIN tracker.chain_graph.chain.txids
        /\ \A i \in DOMAIN s : s[i][1] = tracker.chain_graph.chain.txids[s[i][2]]
        /\ \A i, j \in DOMAIN s : Precedes(s[i][1], s[j][1]) => i < j

\* a transaction inserted last, at a position before that of one inserted
\* earlier, is yielded first, and one inserted unconfirmed is yielded after a
\* confirmed one
C27_Witness ==
    /\ op.name = "insert_tx"
    /\ IsOk(result)
    /\ \E s \in TransactionsInChain(tracker.chain_graph) :
        /\ Len(s) = 2
        /\ s[1][2] = op.tx
        /\ s[2][2] \in DOMAIN pre.chain.txids
        /\ s[1][1].tag = "Confirmed"
        /\ s[2][1] \in {Unconfirmed, Confirmed(MaxChainHeight)}

----
\* The command line: one run loads the tracker from the store, handles one
\* command step by step and exits. `op` holds the command, the step it is at
\* and its locals; `pre` is the tracker and the store when the command began.

\* enum Keychain of the command line library
CliKeychains == {"External", "Internal"}

\* errors of the electrum client and of the file behind the store
ClientError == [kind |-> "client"]
IoError == [kind |-> "io"]
CreateTxError == [kind |-> "create_tx"]

\* KeychainStore::append_changeset: the changeset is appended whole, or the
\* write fails and the log is as it was
StoreAppendChangeset(store, changeset) ==
    {[db |-> store, result |-> Err(IoError)],
     [db |-> [store EXCEPT !.changesets = Append(@, changeset)], result |-> Ok]}

\* KeychainStore::set_derivation_indices
StoreSetDerivationIndices(store, indices) ==
    {[db |-> store, result |-> Err(IoError)],
     [db |-> [store EXCEPT !.derivation_indices = indices], result |-> Ok]}

\* KeychainStore::load_into_keychain_tracker: every changeset of the log is
\* applied in order, then the stored derivation indices
RECURSIVE ApplyAll(_, _)
ApplyAll(t, changesets) ==
    IF changesets = <<>> THEN t
    ELSE ApplyAll(ApplyChangeset(t, Head(changesets)), Tail(changesets))

LoadIntoKeychainTracker(store) ==
    ApplyChangeset(ApplyAll(KeychainTrackerDefault, store.changesets),
                   KeychainChangeSet(store.derivation_indices, ChainGraphChangeSetDefault))

\* KeychainTxOutIndex::derive_new: the index of the keychain advances by one
DeriveNew(derivation_indices, keychain) ==
    [k \in DOMAIN derivation_indices \cup {keychain} |->
        IF k # keychain THEN derivation_indices[k]
        ELSE IF keychain \in DOMAIN derivation_indices
             THEN derivation_indices[keychain] + 1 ELSE 0]

\* KeychainTxOutIndex::next_unused: the lowest unused derived script, and a
\* new one is derived when every derived script is used; which scripts are
\* used is not part of the state, so both outcomes are possible once a
\* script is derived
NextUnused(derivation_indices, keychain) ==
    {DeriveNew(derivation_indices, keychain)} \cup
    (IF keychain \in DOMAIN derivation_indices THEN {derivation_indices} ELSE {})

\* KeychainTracker::insert_tx: forwards to the chain graph as the update of
\* that one transaction; the trackers and results the call can leave
KeychainTrackerInsertTx(t, tx, pos) ==
    {[tracker |-> IF IsOk(r) THEN ApplyChangeset(t, KeychainChangeSet(<<>>, r.val)) ELSE t,
      result |-> IF IsOk(r) THEN OkOf(KeychainChangeSet(<<>>, r.val)) ELSE r] :
        r \in ChainGraphDetermineChangeset(t.chain_graph,
                    ChainGraph(<<>>, [x \in {tx} |-> pos], {tx}, <<>>))}

\* changeset_additions: the txids a changeset adds whose transactions the
\* graph does not hold
ChangesetAdditions(chain_graph, changeset) ==
    {t \in DOMAIN changeset.txids :
        IsSome(changeset.txids[t]) /\ t \notin chain_graph.graph.txs}

\* what the store file holds when the program starts
StoredChangeSets ==
    {KeychainChangeSetDefault,
     KeychainChangeSet([k \in {"External"} |-> 0],
        ChainGraphChangeSet([h \in {0} |-> Some(1)], [t \in {1} |-> Some(Confirmed(0))],
                            {1}, <<>>)),
     KeychainChangeSet([k \in CliKeychains |-> IF k = "External" THEN 1 ELSE 0],
        ChainGraphChangeSet([h \in {0, 1} |-> Some(1)],
                            [t \in {1, 2} |-> IF t = 1 THEN Some(Confirmed(0))
                                              ELSE Some(Unconfirmed)],
                            {1, 2}, <<>>)),
     KeychainChangeSet([k \in CliKeychains |-> 1],
        ChainGraphChangeSet([h \in {0, 1} |-> Some(1)],
                            [t \in {1, 2} |-> Some(Confirmed(t - 1))],
                            {1, 2}, <<>>))}

\* the sparse chains the server answers a scan with
ChainUpdates == {u.chain : u \in ChainGraphUpdates}

\* the derivation indices a wallet scan reports
IndexUpdates == {<<>>, [k \in {"External"} |-> 1], [k \in CliKeychains |-> 1]}

InitCli ==
    /\ checkpoints = Default.checkpoints
    /\ txid_by_height = Default.txid_by_height
    /\ txid_to_index = Default.txid_to_index
    /\ mempool = Default.mempool
    /\ checkpoint_limit = Default.checkpoint_limit
    /\ keychain_changeset = KeychainChangeSetDefault
    /\ op = Idle
    /\ result = Ok
    /\ db \in {KeychainStore(<<c>>, c.derivation_indices) : c \in StoredChangeSets}
    /\ tracker = LoadIntoKeychainTracker(db)
    /\ stdout = <<>>
    /\ pre = [tracker |-> tracker, db |-> db]

\* the command goes on to its next step
GoesOn(name, at, locals) ==
    /\ op' = [name |-> name, at |-> at, locals |-> locals]
    /\ UNCHANGED <<checkpoints, txid_by_height, txid_to_index, mempool, checkpoint_limit,
                   result, pre, stdout>>

\* the command prints the lines and returns r to its caller
ReturnsPrinting(r, lines) ==
    /\ op' = [op EXCEPT !.at = "returned"]
    /\ result' = r
    /\ stdout' = stdout \o lines
    /\ UNCHANGED <<checkpoints, txid_by_height, txid_to_index, mempool, checkpoint_limit, pre>>

\* the command returns r to its caller
Returns(r) == ReturnsPrinting(r, <<>>)

At(name, at) == op # Idle /\ op.name = name /\ op.at = at

\* ElectrumCommands::Scan up to the `?` of wallet_txid_scan, and Sync up to
\* the `?` of spk_txid_scan: the scan fails, or it answers with a chain
\* update; Scan also records the derivation indices it found
ScanTxids ==
    /\ op = Idle
    /\ \E command \in {"scan", "sync"} :
        \/ /\ op' = [name |-> command, at |-> "returned", locals |-> <<>>]
           /\ result' = Err(ClientError)
           /\ UNCHANGED <<checkpoints, txid_by_height, txid_to_index, mempool,
                          checkpoint_limit, pre, keychain_changeset, tracker, db, stdout>>
        \/ \E chain_update \in ChainUpdates, keychain_index_update \in IndexUpdates :
            /\ keychain_changeset' =
                    [KeychainChangeSetDefault EXCEPT !.derivation_indices =
                        IF command = "scan" THEN keychain_index_update ELSE <<>>]
            /\ GoesOn(command, "determine_changeset", [chain_update |-> chain_update])
            /\ UNCHANGED <<tracker, db>>

IsScan == op # Idle /\ op.name \in {"scan", "sync"}

\* let sparsechain_changeset = tracker.chain().determine_changeset(&chain_update)?;
ScanDetermineChangeset ==
    /\ IsScan /\ op.at = "determine_changeset"
    /\ \E r \in SparseChainDetermineChangeset(tracker.chain_graph.chain, op.locals.chain_update) :
        IF IsOk(r)
        THEN GoesOn(op.name, "batch_transaction_get", [sparsechain_changeset |-> r.val])
        ELSE Returns(r)
    /\ UNCHANGED <<keychain_changeset, tracker, db>>

\* client.batch_transaction_get(new_txids.iter())?: the request fails, or
\* the server answers with transactions of the txids it was asked for
ScanBatchTransactionGet ==
    /\ IsScan /\ op.at = "batch_transaction_get"
    /\ LET new_txids == ChangesetAdditions(tracker.chain_graph, op.locals.sparsechain_changeset)
       IN \/ Returns(Err(ClientError))
          \/ \E new_txs \in SUBSET new_txids :
                GoesOn(op.name, "inflate_changeset",
                       [sparsechain_changeset |-> op.locals.sparsechain_changeset,
                        new_txs |-> new_txs])
    /\ UNCHANGED <<keychain_changeset, tracker, db>>

\* tracker.chain_graph().inflate_changeset(sparsechain_changeset, new_txs)?
\* and keychain_changeset.chain_graph = chaingraph_changeset
ScanInflateChangeset ==
    /\ IsScan /\ op.at = "inflate_changeset"
    /\ LET r == InflateChangeset(tracker.chain_graph, op.locals.sparsechain_changeset,
                                 op.locals.new_txs)
       IN IF IsOk(r)
          THEN /\ keychain_changeset' = [keychain_changeset EXCEPT !.chain_graph = r.val]
               /\ GoesOn(op.name, "append_changeset", <<>>)
          ELSE /\ Returns(r)
               /\ UNCHANGED keychain_changeset
    /\ UNCHANGED <<tracker, db>>

\* the append step of a flow that applies the changeset to the tracker
\* before it writes it to the store
ScanAppendChangesetApplyingFirst ==
    /\ IsScan /\ op.at = "append_changeset"
    /\ tracker' = ApplyChangeset(tracker, keychain_changeset)
    /\ \E o \in StoreAppendChangeset(db, keychain_changeset) :
        /\ db' = o.db
        /\ IF o.result = Ok THEN GoesOn(op.name, "apply_changeset", <<>>)
           ELSE Returns(o.result)
    /\ UNCHANGED keychain_changeset

\* db.append_changeset(&keychain_changeset)?;
ScanAppendChangeset ==
    /\ IsScan /\ op.at = "append_changeset"
    /\ \E o \in StoreAppendChangeset(db, keychain_changeset) :
        /\ db' = o.db
        /\ IF o.result = Ok THEN GoesOn(op.name, "apply_changeset", <<>>)
           ELSE Returns(o.result)
    /\ UNCHANGED <<keychain_changeset, tracker>>

\* tracker.apply_changeset(keychain_changeset); Ok(())
ScanApplyChangeset ==
    /\ IsScan /\ op.at = "apply_changeset"
    /\ tracker' = ApplyChangeset(tracker, keychain_changeset)
    /\ Returns(Ok)
    /\ UNCHANGED <<keychain_changeset, db>>

\* the index next_unused returns with its script: the one it derived, or one
\* of those derived before
NextUnusedIndex(before, after, keychain) ==
    IF after # before THEN {after[keychain]} ELSE 0 .. before[keychain]

\* the lines of println!
AddressLine(index) == [line |-> "address", index |-> index]
IndicesLine(derivation_indices) == [line |-> "indices", indices |-> derivation_indices]
BroadcastedLine(txid) == [line |-> "Broadcasted Tx", txid |-> txid]

\* run_address_cmd up to `new_address`: Next and New take their script from
\* the index of the tracker, the other address commands take none and print
\* what the index holds
AddressNewAddress ==
    /\ op = Idle
    /\ \E addr_cmd \in {"Next", "New", "Index"} :
        \/ /\ addr_cmd = "Index"
           /\ op' = [name |-> "address", at |-> "returned", locals |-> [addr_cmd |-> addr_cmd]]
           /\ result' = Ok
           /\ stdout' = Append(stdout, IndicesLine(tracker.txout_index.derivation_indices))
           /\ UNCHANGED <<checkpoints, txid_by_height, txid_to_index, mempool,
                          checkpoint_limit, pre, tracker>>
        \/ /\ addr_cmd # "Index"
           /\ \E indices \in IF addr_cmd = "Next"
                             THEN NextUnused(tracker.txout_index.derivation_indices, "External")
                             ELSE {DeriveNew(tracker.txout_index.derivation_indices, "External")} :
              \E index \in IF addr_cmd = "Next"
                           THEN NextUnusedIndex(tracker.txout_index.derivation_indices, indices,
                                                "External")
                           ELSE {indices["External"]} :
                /\ tracker' = [tracker EXCEPT !.txout_index.derivation_indices = indices]
                /\ GoesOn("address", "set_derivation_indices",
                          [addr_cmd |-> addr_cmd, index |-> index])
    /\ UNCHANGED <<keychain_changeset, db>>

\* an address command that prints the address before it knows whether the
\* indices were written
AddressPrintingFirst ==
    /\ At("address", "set_derivation_indices")
    /\ \E o \in StoreSetDerivationIndices(db, tracker.txout_index.derivation_indices) :
        /\ db' = o.db
        /\ ReturnsPrinting(o.result, <<AddressLine(op.locals.index)>>)
    /\ UNCHANGED <<keychain_changeset, tracker>>

\* db.set_derivation_indices(txout_index.derivation_indices())?; the address
\* is printed; Ok(())
AddressSetDerivationIndices ==
    /\ At("address", "set_derivation_indices")
    /\ \E o \in StoreSetDerivationIndices(db, tracker.txout_index.derivation_indices) :
        /\ db' = o.db
        /\ IF o.result = Ok
           THEN ReturnsPrinting(Ok, <<AddressLine(op.locals.index)>>)
           ELSE Returns(o.result)
    /\ UNCHANGED <<keychain_changeset, tracker>>

\* Commands::Send, create_tx(...)?: the change script is the next unused one
\* of the internal keychain (the external one when the wallet has no
\* internal keychain); building the transaction can still fail after that
SendCreateTx ==
    /\ op = Idle
    /\ \E internal_keychain \in CliKeychains :
       \E indices \in NextUnused(tracker.txout_index.derivation_indices, internal_keychain) :
            tracker' = [tracker EXCEPT !.txout_index.derivation_indices = indices]
    /\ \/ /\ op' = [name |-> "send", at |-> "returned", locals |-> <<>>]
          /\ result' = Err(CreateTxError)
          /\ UNCHANGED <<checkpoints, txid_by_height, txid_to_index, mempool,
                         checkpoint_limit, pre, stdout>>
       \/ \E transaction \in GraphTxids \ DOMAIN tracker.chain_graph.chain.txids :
            GoesOn("send", "insert_tx", [transaction |-> transaction])
    /\ UNCHANGED <<keychain_changeset, db>>

\* let changeset = tracker.insert_tx(transaction.clone(), P::unconfirmed())?;
SendInsertTx ==
    /\ At("send", "insert_tx")
    /\ \E o \in KeychainTrackerInsertTx(tracker, op.locals.transaction, Unconfirmed) :
        /\ tracker' = o.tracker
        /\ IF IsOk(o.result)
           THEN /\ keychain_changeset' = o.result.val
                /\ GoesOn("send", "broadcast", op.locals)
           ELSE /\ Returns(o.result)
                /\ UNCHANGED keychain_changeset
    /\ UNCHANGED db

\* a Send that goes on to write the store whatever broadcast returned
SendBroadcastUnchecked ==
    /\ At("send", "broadcast")
    /\ \E r \in {Ok, Err(ClientError)} :
        GoesOn("send", "set_derivation_indices",
               [transaction |-> op.locals.transaction, broadcast |-> r])
    /\ UNCHANGED <<keychain_changeset, tracker, db>>

\* client.broadcast(&transaction)?; the command remembers what it returned
SendBroadcast ==
    /\ At("send", "broadcast")
    /\ \/ Returns(Err(ClientError))
       \/ GoesOn("send", "set_derivation_indices",
                 [transaction |-> op.locals.transaction, broadcast |-> Ok])
    /\ UNCHANGED <<keychain_changeset, tracker, db>>

\* store.set_derivation_indices(tracker.txout_index.derivation_indices())?;
SendSetDerivationIndices ==
    /\ At("send", "set_derivation_indices")
    /\ \E o \in StoreSetDerivationIndices(db, tracker.txout_index.derivation_indices) :
        /\ db' = o.db
        /\ IF o.result = Ok THEN GoesOn("send", "append_changeset", op.locals)
           ELSE Returns(o.result)
    /\ UNCHANGED <<keychain_changeset, tracker>>

\* store.append_changeset(&changeset)?; println!("Broadcasted Tx : {}", ..);
\* Ok(())
SendAppendChangeset ==
    /\ At("send", "append_changeset")
    /\ \E o \in StoreAppendChangeset(db, keychain_changeset) :
        /\ db' = o.db
        /\ IF o.result = Ok
           THEN ReturnsPrinting(Ok, <<BroadcastedLine(op.locals.transaction)>>)
           ELSE Returns(o.result)
    /\ UNCHANGED <<keychain_changeset, tracker>>

NextCli ==
    \/ ScanTxids
    \/ ScanDetermineChangeset
    \/ ScanBatchTransactionGet
    \/ ScanInflateChangeset
    \/ ScanAppendChangeset
    \/ ScanApplyChangeset
    \/ AddressNewAddress
    \/ AddressSetDerivationIndices
    \/ SendCreateTx
    \/ SendInsertTx
    \/ SendBroadcast
    \/ SendSetDerivationIndices
    \/ SendAppendChangeset

CliSpec == InitCli /\ [][NextCli]_vars

----
\* Persistence and the tracker in memory

\* C29: in the scan and sync flow the keychain changeset is appended to the
\* store before it is applied to the tracker, and when determine_changeset,
\* fetching the transactions, inflate_changeset or append_changeset fails the
\* command returns the error and the tracker is never modified: the tracker
\* differs from the one the command began with only once the command has
\* returned Ok, and then the log of the store ends with the changeset and the
\* tracker is the old one with that changeset applied; an error is returned
\* as soon as it occurs, with the tracker as it was.
C29_PersistBeforeApply ==
    IsScan =>
        /\ tracker # pre.tracker =>
            /\ op.at = "returned" /\ result = Ok
            /\ db.changesets = Append(pre.db.changesets, keychain_changeset)
            /\ tracker = ApplyChangeset(pre.tracker, keychain_changeset)
        /\ op.at = "apply_changeset" =>
            db.changesets = Append(pre.db.changesets, keychain_changeset)
        /\ result # Ok => op.at = "returned" /\ tracker = pre.tracker /\ db = pre.db

\* a scan has appended a changeset and then changed the tracker with it
C29_Witness ==
    /\ IsScan /\ op.at = "returned" /\ result = Ok
    /\ tracker # pre.tracker
    /\ db.changesets = Append(pre.db.changesets, keychain_changeset)

\* each of the four steps has failed in some run
C29_WitnessAppendFails ==
    /\ IsScan /\ op.at = "returned" /\ result = Err(IoError)
    /\ ApplyChangeset(tracker, keychain_changeset) # tracker

C29_WitnessInflateFails ==
    IsScan /\ op.at = "returned" /\ result.tag = "Err" /\ result.err.kind = "Missing"

C29_WitnessDetermineFails ==
    IsScan /\ op.at = "returned" /\ result.tag = "Err" /\ result.err.kind = "TxInconsistent"

C29_WitnessFetchFails ==
    /\ IsScan /\ op.at = "returned" /\ result = Err(ClientError)
    /\ keychain_changeset.derivation_indices # <<>>

\* C30: persistence failure leaves memory untouched: in every command flow
\* (the scan and sync flow, Send, address Next and New), when append_changeset
\* or set_derivation_indices fails the error is returned to the caller and
\* the tracker in memory (chain graph and derivation indices) equals its
\* state before the command started.
C30_PersistenceFailureLeavesMemory ==
    op # Idle /\ op.at = "returned" /\ result = Err(IoError) => tracker = pre.tracker

\* the same for the chain graph alone, and for the flows of the command line
\* library one by one
C30_SendKeepsChainGraph ==
    At("send", "returned") /\ result = Err(IoError) =>
        tracker.chain_graph = pre.tracker.chain_graph

C30_AddressKeepsIndices ==
    At("address", "returned") /\ result = Err(IoError) =>
        tracker.txout_index = pre.tracker.txout_index

----
\* The order of the steps of Send and of address Next / New

IsSend == op # Idle /\ op.name = "send"

BroadcastReturnedOk == "broadcast" \in DOMAIN op.locals /\ op.locals.broadcast = Ok

\* C31: in the Send command the store is written (set_derivation_indices,
\* then append_changeset) only after broadcast returned Ok; when create_tx,
\* tracker.insert_tx or broadcast fails nothing is written to the store, and
\* "Broadcasted Tx" is printed only after both store writes succeeded: a
\* store that differs from the one the command began with means broadcast
\* returned Ok; a changeset is appended only to a store that holds the
\* derivation indices of the tracker; every error other than the io error
\* of the store leaves the store as it was; and the line is printed exactly
\* when the command returned Ok with both writes in the store.
C31_SendOrdering ==
    IsSend =>
        /\ db # pre.db => BroadcastReturnedOk
        /\ db.changesets # pre.db.changesets =>
            /\ db.derivation_indices = tracker.txout_index.derivation_indices
            /\ db.changesets = Append(pre.db.changesets, keychain_changeset)
        /\ op.at = "returned" /\ result \notin {Ok, Err(IoError)} =>
            db = pre.db /\ ~BroadcastReturnedOk
        /\ stdout # <<>> =>
            /\ stdout = <<BroadcastedLine(op.locals.transaction)>>
            /\ op.at = "returned" /\ result = Ok /\ BroadcastReturnedOk
            /\ db = KeychainStore(Append(pre.db.changesets, keychain_changeset),
                                  tracker.txout_index.derivation_indices)
        /\ op.at = "returned" /\ result = Ok => stdout # <<>>

\* a Send has broadcast its transaction, written both and printed the line,
\* with new derivation indices in the store
C31_Witness ==
    /\ IsSend /\ op.at = "returned" /\ result = Ok
    /\ stdout = <<BroadcastedLine(op.locals.transaction)>>
    /\ db.derivation_indices # pre.db.derivation_indices
    /\ Len(db.changesets) = Len(pre.db.changesets) + 1

\* each of the three failures has happened, after the tracker was modified
\* for the last two
C31_WitnessBroadcastFails ==
    /\ IsSend /\ op.at = "returned" /\ result = Err(ClientError)
    /\ tracker.chain_graph # pre.tracker.chain_graph /\ db = pre.db

C31_WitnessInsertTxFails ==
    /\ IsSend /\ op.at = "returned" /\ result.tag = "Err"
    /\ result.err.kind = "UnresolvableConflict" /\ db = pre.db

C31_WitnessCreateTxFails ==
    IsSend /\ op.at = "returned" /\ result = Err(CreateTxError) /\ db = pre.db

IsAddress == op # Idle /\ op.name = "address"

AddressPrinted == {i \in 1 .. Len(stdout) : stdout[i].line = "address"}

\* C32: for address Next and New the address is printed only after the
\* tracker's current derivation indices, which cover the index of that
\* address, were persisted with set_derivation_indices; when persisting
\* fails no address is printed and the error is returned: a printed address
\* means the command returned Ok, the store holds the derivation indices of
\* the tracker and the external index in the store is at least the index of
\* the address; a Next or New that returned Ok printed its address; and a
\* failed write returns the io error with nothing printed and the store as
\* it was.
C32_AddressRevealOrdering ==
    IsAddress =>
        /\ \A i \in AddressPrinted :
            /\ op.at = "returned" /\ result = Ok
            /\ stdout[i] = AddressLine(op.locals.index)
            /\ db.derivation_indices = tracker.txout_index.derivation_indices
            /\ "External" \in DOMAIN db.derivation_indices
            /\ stdout[i].index <= db.derivation_indices["External"]
        /\ op.at = "returned" /\ result = Ok /\ op.locals.addr_cmd \in {"Next", "New"} =>
            AddressPrinted # {}
        /\ result # Ok =>
            op.at = "returned" /\ result = Err(IoError) /\ stdout = <<>> /\ db = pre.db

\* an address of a newly derived index was printed, with the store holding
\* indices it did not hold before
C32_Witness ==
    /\ IsAddress /\ op.at = "returned" /\ result = Ok
    /\ AddressPrinted # {}
    /\ db.derivation_indices # pre.db.derivation_indices
    /\ tracker # pre.tracker

\* the write failed for an address whose index the store does not cover
C32_WitnessFails ==
    /\ IsAddress /\ op.at = "returned" /\ result = Err(IoError)
    /\ tracker.txout_index.derivation_indices # db.derivation_indices

----
\* The order of the checks of apply_update

\* the failure the four checks give when each is made of the whole update
\* before the next one: "" when all four pass
FirstFailingCheck(c, update) ==
    LET expected_last_valid == ExpectedLastValid(c, update)
    IN IF update.last_valid # expected_last_valid THEN "Stale"
       ELSE IF TipConflict(update, expected_last_valid) THEN "LastValidConflictsNewTip"
       ELSE IF \E txid \in DOMAIN update.txids : TxAboveTip(update, txid)
       THEN "TxHeightGreaterThanTip"
       ELSE IF \E txid \in DOMAIN update.txids : TxInconsistent(c, update, txid)
       THEN "Inconsistent"
       ELSE ""

\* C33: apply_update checks an update in the fixed order Stale,
\* LastValidConflictsNewTip, TxHeightGreaterThanTip, Inconsistent and returns
\* the error of the first failing check in that order; an update with a txid
\* confirmed above new_tip and another txid inconsistent with the chain
\* fails with TxHeightGreaterThanTip whatever the iteration order of
\* update.txids.
C33_ValidationOrder ==
    IsApplyUpdate /\ result # Panic => FailureKind = FirstFailingCheck(pre, op.update)

\* the two checks made before the loop over the txids do come first, and an
\* update fails exactly when one of the four checks fails
C33_ChecksBeforeTheLoop ==
    IsApplyUpdate /\ result # Panic =>
        LET first == FirstFailingCheck(pre, op.update)
        IN /\ first \in {"Stale", "LastValidConflictsNewTip", ""} => FailureKind = first
           /\ first \in {"TxHeightGreaterThanTip", "Inconsistent"} =>
                FailureKind \in {"TxHeightGreaterThanTip", "Inconsistent"}

\* an update with a txid above the tip and another one inconsistent was
\* refused as Inconsistent
C33_InconsistentReportedFirst ==
    /\ IsApplyUpdate /\ FailureKind = "Inconsistent"
    /\ \E txid \in DOMAIN op.update.txids : TxAboveTip(op.update, txid)

----
\* What an invalidation removes

\* the last call was an apply_update that returned Ok, with or without an
\* invalidate
AppliedInvalidating == IsApplyUpdate /\ result = Ok /\ IsSome(op.update.invalidate)
AppliedPlain == IsApplyUpdate /\ result = Ok /\ ~IsSome(op.update.invalidate)

\* the confirmed txids of chain c at or above the height
ConfirmedFrom(c, height) == {p \in c.txid_by_height : p[1] >= height}

\* the update confirms the txid at the height
Confirms(update, txid, height) ==
    txid \in DOMAIN update.txids /\ update.txids[txid] = Confirmed(height)

\* with an invalidate: every checkpoint and confirmed txid from inv.height on
\* is gone unless the update states it again
C34_RemovesFromInvalidate ==
    AppliedInvalidating =>
        LET inv == op.update.invalidate.val
        IN /\ \A h \in DOMAIN pre.checkpoints :
                h >= inv.height /\ h \in DOMAIN checkpoints =>
                    h = op.update.new_tip.height /\ checkpoints[h] = op.update.new_tip.hash
           /\ \A p \in ConfirmedFrom(pre, inv.height) :
                p \in txid_by_height => Confirms(op.update, p[2], p[1])

\* with an invalidate: every checkpoint below inv.height is kept
C34_KeepsCheckpointsBelow ==
    AppliedInvalidating =>
        \A h \in DOMAIN pre.checkpoints :
            h < op.update.invalidate.val.height =>
                h \in DOMAIN checkpoints /\ checkpoints[h] = pre.checkpoints[h]

\* with an invalidate: every confirmed txid below inv.height is kept
C34_KeepsConfirmedBelow ==
    AppliedInvalidating =>
        \A p \in pre.txid_by_height :
            p[1] < op.update.invalidate.val.height =>
                /\ p \in txid_by_height
                /\ p[2] \in DOMAIN txid_to_index /\ txid_to_index[p[2]] = p[1]

\* with an invalidate: the txids the mempool held are dropped (they stay only
\* when the update states them again as unconfirmed) if and only if the
\* invalidation removed a confirmed txid
C34_MempoolDroppedIffRemoved ==
    AppliedInvalidating =>
        LET removed == ConfirmedFrom(pre, op.update.invalidate.val.height)
        IN /\ removed # {} =>
                \A txid \in pre.mempool \cap mempool :
                    txid \in DOMAIN op.update.txids /\ op.update.txids[txid] = Unconfirmed
           /\ removed = {} =>
                \A txid \in pre.mempool \ mempool :
                    txid \in DOMAIN op.update.txids /\ op.update.txids[txid].tag = "Confirmed"

\* without an invalidate: no confirmed txid is removed, and no mempool txid
\* other than those the update confirms
C34_PlainKeepsTxids ==
    AppliedPlain =>
        /\ pre.txid_by_height \subseteq txid_by_height
        /\ \A txid \in DOMAIN pre.txid_to_index :
            txid \in DOMAIN txid_to_index /\ txid_to_index[txid] = pre.txid_to_index[txid]
        /\ \A txid \in pre.mempool \ mempool :
            txid \in DOMAIN op.update.txids /\ op.update.txids[txid].tag = "Confirmed"

\* the checkpoints before pruning hold more than `limit` checkpoints from
\* height h up, so that pruning to the limit removes the one at h
PrunedAway(cps, limit, h) ==
    IsSome(limit) /\ Cardinality({k \in DOMAIN cps : k >= h}) > limit.val

\* the checkpoints of chain c with new_tip recorded
WithNewTip(cps, new_tip) == DOMAIN cps \cup {new_tip.height}

\* without an invalidate: no checkpoint is removed before pruning: one that
\* is gone is beyond the limit
C34_PlainKeepsCheckpoints ==
    AppliedPlain =>
        \A h \in DOMAIN pre.checkpoints :
            \/ h \in DOMAIN checkpoints /\ checkpoints[h] = pre.checkpoints[h]
            \/ PrunedAway([k \in WithNewTip(pre.checkpoints, op.update.new_tip) |-> 0],
                          checkpoint_limit, h)

\* with an invalidate: a checkpoint below inv.height that is gone is beyond
\* the limit
C34_KeepsCheckpointsBelowBeforePruning ==
    AppliedInvalidating =>
        LET inv == op.update.invalidate.val
            below == {k \in DOMAIN pre.checkpoints : k < inv.height}
        IN \A h \in below :
            \/ h \in DOMAIN checkpoints /\ checkpoints[h] = pre.checkpoints[h]
            \/ PrunedAway([k \in below \cup {op.update.new_tip.height} |-> 0],
                          checkpoint_limit, h)

C34_WitnessMempoolKept ==
    /\ AppliedInvalidating
    /\ DOMAIN pre.checkpoints \ DOMAIN checkpoints # {}
    /\ pre.mempool # {} /\ pre.mempool \subseteq mempool

\* a checkpoint below the invalidated height has been pruned
C34_WitnessPruned ==
    /\ AppliedInvalidating /\ checkpoint_limit = Some(1)
    /\ \E h \in DOMAIN pre.checkpoints \ DOMAIN checkpoints :
            h < op.update.invalidate.val.height

----
\* apply_block_txs on a block that replaces a checkpoint

\* the chain before the call held a checkpoint at the height of the block
\* with another hash
SameHeightReorg ==
    /\ IsApplyBlockTxs
    /\ op.block_id.height \in DOMAIN pre.checkpoints
    /\ pre.checkpoints[op.block_id.height] # op.block_id.hash

\* C35: on a chain that holds a checkpoint at block_id.height with a hash
\* different from block_id.hash, apply_block_txs(block_id, txids) succeeds,
\* replaces that checkpoint (and everything above it) by block_id and
\* confirms txids at block_id.height.
C35_SameHeightReorg ==
    SameHeightReorg =>
        /\ result = Ok
        /\ \A h \in DOMAIN checkpoints : h >= op.block_id.height =>
            h = op.block_id.height /\ checkpoints[h] = op.block_id.hash
        /\ \A txid \in op.transactions : <<op.block_id.height, txid>> \in txid_by_height

\* what the code does with such a block: the update it builds is stale and
\* the chain stays as it was
C35_SameHeightReorgIsStale ==
    SameHeightReorg /\ result # Panic =>
        /\ FailureKind = "Stale"
        /\ Self = pre

----
\* The tip after an update

\* C36: after every successful apply_update, for any checkpoint_limit,
\* latest_checkpoint() = Some(update.new_tip) and
\* checkpoint_at(new_tip.height) has the hash of new_tip.
C36_NewTipIsTip ==
    IsApplyUpdate /\ result = Ok =>
        /\ LatestCheckpoint(Self) = Some(op.update.new_tip)
        /\ CheckpointAt(Self, op.update.new_tip.height) = Some(op.update.new_tip)

\* the same for chains that keep at least one checkpoint and hold none at
\* u32::MAX
C36_NewTipIsTipBelowMax ==
    /\ IsApplyUpdate /\ result = Ok
    /\ checkpoint_limit # Some(0)
    /\ U32_MAX \notin DOMAIN pre.checkpoints
    => /\ LatestCheckpoint(Self) = Some(op.update.new_tip)
       /\ CheckpointAt(Self, op.update.new_tip.height) = Some(op.update.new_tip)

\* an update was applied whose new_tip has another hash than the checkpoint
\* the chain keeps at that height
C36_OtherHashKept ==
    /\ IsApplyUpdate /\ result = Ok
    /\ op.update.new_tip.height \in DOMAIN checkpoints
    /\ checkpoints[op.update.new_tip.height] # op.update.new_tip.hash

\* an update was applied, under no limit, whose new_tip is below the latest
\* checkpoint
C36_TipBelowLatest ==
    /\ IsApplyUpdate /\ result = Ok /\ checkpoint_limit = None
    /\ \E h \in DOMAIN checkpoints : h > op.update.new_tip.height

----
\* Staleness at the top of the height range

\* C37: for invalidate = None, expected_last_valid is the chain's overall
\* latest checkpoint for every checkpoint height representable in u32,
\* u32::MAX included, so an update with last_valid = latest_checkpoint() is
\* never rejected as Stale.
C37_LatestNeverStale ==
    IsApplyUpdate /\ ~IsSome(op.update.invalidate) =>
        /\ ExpectedLastValid(pre, op.update) = LatestCheckpoint(pre)
        /\ op.update.last_valid = LatestCheckpoint(pre) => FailureKind # "Stale"

\* the same for chains whose latest checkpoint is below u32::MAX
C37_LatestNeverStaleBelowMax ==
    IsApplyUpdate /\ ~IsSome(op.update.invalidate) /\ U32_MAX \notin DOMAIN pre.checkpoints =>
        /\ ExpectedLastValid(pre, op.update) = LatestCheckpoint(pre)
        /\ op.update.last_valid = LatestCheckpoint(pre) => FailureKind # "Stale"

\* an update stating the latest checkpoint as its last_valid was rejected as
\* stale
C37_LatestRejected ==
    /\ IsApplyUpdate /\ ~IsSome(op.update.invalidate)
    /\ op.update.last_valid = LatestCheckpoint(pre)
    /\ FailureKind = "Stale"

----
\* The arithmetic of pruning

\* the chain a valid update leaves just before prune_checkpoints runs; its
\* checkpoints and its limit do not depend on the iteration order of the
\* txids
BeforePruning(c, update) ==
    ApplyValid(c, update, CHOOSE order \in Orders(DOMAIN update.txids) : TRUE)

\* C38: for every reachable chain and every checkpoint_limit (Some(0)
\* included), prune_checkpoints computes keep_height = last_height + 1
\* without u32 overflow, so a valid apply_update never panics or wraps while
\* pruning.
C38_PruningNeverOverflows ==
    IsApplyUpdate /\ ~IsErr(result) =>
        /\ result # Panic
        /\ ~PruneOverflows(BeforePruning(pre, op.update))

\* the same under every limit other than Some(0) (under Some(n), n >= 1,
\* last_height is below another checkpoint and so below u32::MAX)
C38_NeverOverflowsBelowLimit ==
    IsApplyUpdate /\ ~IsErr(result) /\ checkpoint_limit # Some(0) =>
        /\ result # Panic
        /\ ~PruneOverflows(BeforePruning(pre, op.update))

\* a release build has wrapped keep_height to 0 and kept every checkpoint
C38_Wrapped ==
    /\ IsApplyUpdate /\ result = Ok
    /\ PruneOverflows(BeforePruning(pre, op.update))
    /\ checkpoints # <<>>

\* a debug build has panicked in prune_checkpoints
C38_Panicked ==
    IsApplyUpdate /\ result = Panic /\ PruneOverflows(BeforePruning(pre, op.update))

----
\* The algebra of append on the derivation indices

\* the maps appended third: append works keychain by keychain, so those over
\* two keychains meet every case of a keychain held or not by each of the
\* three maps
ThirdIndexMaps == UNION {[S -> 0..MaxIndex] : S \in SUBSET {"One", "Two"}}

\* C39: on the derivation_indices component KeychainChangeSet::append is
\* commutative (a.append(b) and b.append(a) give the same map), associative
\* and idempotent (a.append(a) = a), and appending the default (empty)
\* changeset changes nothing, for all index values, 0 included: with a the
\* indices before the append, b those appended and ab the indices the
\* append left, ab is what b.append(a) gives; ab.append(c) is
\* a.append(b.append(c)) for every third map c; ab = a when b = a, and when b is empty;
\* ab = b when a is empty.
C39_MergeAlgebra ==
    IsAppend =>
        LET a == pre.derivation_indices
            b == op.other.derivation_indices
            ab == keychain_changeset.derivation_indices
        IN /\ ab = AppendDerivationIndices(b, a)
           /\ \A c \in ThirdIndexMaps :
                AppendDerivationIndices(ab, c) =
                    AppendDerivationIndices(a, AppendDerivationIndices(b, c))
           /\ b = a => ab = a
           /\ b = KeychainChangeSetDefault.derivation_indices => ab = a
           /\ a = KeychainChangeSetDefault.derivation_indices => ab = b

\* an append of maps that share a keychain with different indices, one of
\* them 0, and that hold a keychain each, one with index 0, the other does
\* not hold
C39_Witness ==
    /\ IsAppend
    /\ LET a == pre.derivation_indices
           b == op.other.derivation_indices
       IN /\ \E k \in DOMAIN a \cap DOMAIN b : a[k] = 0 /\ b[k] > 0
          /\ \E k \in DOMAIN a \ DOMAIN b : a[k] > 0
          /\ \E k \in DOMAIN b \ DOMAIN a : b[k] = 0

\* a changeset was appended to itself, and the empty one to another
C39_WitnessIdempotent ==
    /\ IsAppend /\ op.other = pre
    /\ \E k \in DOMAIN pre.derivation_indices : pre.derivation_indices[k] = 0

C39_WitnessDefault ==
    /\ IsAppend /\ op.other = KeychainChangeSetDefault
    /\ pre.derivation_indices # <<>>

----
\* The txids of a checkpoint

\* iteration of a BTreeSet<(u32, Txid)>: the pairs in ascending order, by
\* height and then by txid
Ascending(pairs) ==
    CHOOSE seq \in Orders(pairs) :
        \A i, j \in 1..Len(seq) : i <= j => TupleGeq(seq[j], seq[i])

\* SparseChain::checkpoint_txids: panics when the chain has no checkpoint at
\* the height of block_id or one with another hash; otherwise yields the
\* range of txid_by_height that starts at (block_id.height, all zeros) and
\* has no upper end
CheckpointTxids(c, block_id) ==
    IF \/ block_id.height \notin DOMAIN c.checkpoints
       \/ c.checkpoints[block_id.height] # block_id.hash
    THEN Panic
    ELSE OkOf(Ascending({p \in c.txid_by_height :
                            TupleGeq(p, <<block_id.height, ALL_ZEROS>>)}))

DoCheckpointTxids ==
    /\ Callable
    /\ \E block_id \in BlockIds :
        /\ result' = CheckpointTxids(Self, block_id)
        /\ op' = [name |-> "checkpoint_txids", block_id |-> block_id]
    /\ Becomes(Self)

NextQuery ==
    \/ Next
    \/ DoCheckpointTxids

QuerySpec == Init /\ [][NextQuery]_vars

IsCheckpointTxids == op.name = "checkpoint_txids"

\* the txids confirmed in the checkpoint at height h of chain c: those
\* confirmed at h or below it, above the checkpoint before
InCheckpoint(c, h) ==
    {p \in c.txid_by_height :
        /\ p[1] <= h
        /\ \A k \in DOMAIN c.checkpoints : k < h => p[1] > k}

Yielded == {result.val[i] : i \in 1..Len(result.val)}

\* C40: checkpoint_txids(block_id), for a block_id that is a checkpoint of
\* the chain, yields exactly the txids confirmed in that checkpoint, ordered
\* by confirmation height ascending and then by txid; it yields no txid that
\* belongs to a higher checkpoint.
C40_CheckpointTxids ==
    IsCheckpointTxids /\ result # Panic =>
        /\ Yielded = InCheckpoint(pre, op.block_id.height)
        /\ \A p \in Yielded : p[1] <= op.block_id.height
        /\ \A i, j \in 1..Len(result.val) :
            i < j => TupleGeq(result.val[j], result.val[i]) /\ result.val[j] # result.val[i]

\* what the call does yield: every txid confirmed at the height of the
\* checkpoint or above it, each once, in ascending order
C40_YieldsFromHeightUp ==
    IsCheckpointTxids /\ result # Panic =>
        /\ Yielded = {p \in pre.txid_by_height : p[1] >= op.block_id.height}
        /\ \A i, j \in 1..Len(result.val) :
            i < j => TupleGeq(result.val[j], result.val[i]) /\ result.val[j] # result.val[i]

\* the txids of a checkpoint were asked for and a txid confirmed in a
\* higher checkpoint was yielded with them
C40_HigherYielded ==
    /\ IsCheckpointTxids /\ result # Panic
    /\ \E p, q \in Yielded :
        /\ p[1] = op.block_id.height
        /\ q[1] > op.block_id.height /\ q[1] \in DOMAIN pre.checkpoints

====
